---------------------------- MODULE Spec2Model ----------------------------
(***************************************************************************)
(* A model of the NEST insect platform: the review server (src/src/main.py *)
(* with its authentication decorators, IP whitelist gate and enhanced      *)
(* blacklist gate), its labeling backend tables, and the public demo       *)
(* application (src/app.py).                                               *)
(*                                                                         *)
(* Strings are TLA+ strings; the string functions of the code (strip,      *)
(* lower, split, `in`) are computed character by character.                *)
(***************************************************************************)
EXTENDS Integers, Sequences, FiniteSets, TLC

VARIABLES
    \* ---- review server (src/src) ----
    blacklist,          \* contents of blacklist.json: address -> record
    whitelist_data,     \* main.whitelist_data, the in-memory list
    whitelist_file,     \* contents of whitelist.json
    session,            \* the Flask session cookie presented with the request
    now,                \* datetime.now(), advanced by every request
    last,               \* the last request and the response it got
    \* ---- labeling backend (Supabase tables, upload folder) ----
    labeled_images,         \* rows of table labeled_images, in physical order
    pending_review_files,   \* rows of table pending_review_files, in physical order
    insect_species,         \* the order_name column of table insect_species
    uploads,                \* file names in UPLOAD_DIR of the review server
    reply,                  \* the last backend handler call and what it returned
    \* ---- demo application (src/app.py) ----
    upload_dir,             \* file names in UPLOAD_FOLDER
    results_dir,            \* file names in RESULTS_FOLDER
    demo_session,           \* the session cookie of the one browser modelled
    classification_storage, \* contents of classifications.json: key -> record
    demo_reply,             \* the last request to the demo and its response
    \* ---- social storage of the demo (src/utils/social_storage.py) ----
    social_data,            \* contents of social_data.json: filename -> likes, comments
    social_calls,           \* per thread: the call in flight and the data it loaded
    social_reply,           \* the last finished call and what it returned
    toggled,                \* history: (filename, id) pairs toggled an odd number of times
    \* ---- library functions called on their own ----
    lib_call,               \* the function called and its arguments
    lib_result,             \* what the call returned
    \* ---- review server: requests served concurrently, module globals ----
    save_calls,             \* per thread: the save_training_data request in flight
    taxonomy_cache,         \* main.taxonomy_cache: cache key -> items
    cache_timestamp,        \* main.cache_timestamp: cache key -> time.time() at store
    cache_params            \* history: cache key -> the parameters the entry was stored for

gateVars == <<blacklist, whitelist_data, whitelist_file, session, now, last>>

dbVars == <<labeled_images, pending_review_files, insect_species, uploads, reply>>

demoVars == <<upload_dir, results_dir, demo_session, classification_storage, demo_reply>>

socialVars == <<social_data, social_calls, social_reply, toggled>>

callVars == <<lib_call, lib_result>>

workVars == <<save_calls, taxonomy_cache, cache_timestamp, cache_params>>

libVars == <<socialVars, callVars, workVars>>

vars == <<gateVars, dbVars, demoVars, libVars>>

-----------------------------------------------------------------------------
(* Bounds of the model *)

\* datetime.now() stops advancing here: at most MaxTime requests in a run
MaxTime == 4

\* rows of labeled_images when the saves start
MaxSaved == 2

\* boxes a detection session holds before no manual box is drawn any more
MaxBoxes == 3

\* the limits asked of the pending-file queue are 1..MaxLimit and the default
MaxLimit == 2

\* pending files in the queue's table
MaxPending == 3

\* rows of labeled_images that exclude files from the queue
MaxLabeled == 1

\* rows of labeled_images that only count towards an order
MaxCounted == 2

\* rows of labeled_images before a duplicate cleanup, and their created_at
MaxRows == 4
MaxCreated == 3

-----------------------------------------------------------------------------
(* Python string functions *)

NULL == "<None>"

Char(s, i) == SubSeq(s, i, i)

\* p in s
Contains(s, p) ==
    \E i \in 1..(Len(s) - Len(p) + 1) : SubSeq(s, i, i + Len(p) - 1) = p

\* s.startswith(p)
StartsWith(s, p) == Len(p) <= Len(s) /\ SubSeq(s, 1, Len(p)) = p

Whitespace == {" ", "\t", "\n", "\r", "\f"}

\* s.strip()
RECURSIVE Strip(_)
Strip(s) ==
    IF Len(s) = 0 THEN s
    ELSE IF Char(s, 1) \in Whitespace THEN Strip(SubSeq(s, 2, Len(s)))
    ELSE IF Char(s, Len(s)) \in Whitespace THEN Strip(SubSeq(s, 1, Len(s) - 1))
    ELSE s

UpperCase == <<"A","B","C","D","E","F","G","H","I","J","K","L","M",
               "N","O","P","Q","R","S","T","U","V","W","X","Y","Z">>
LowerCase == <<"a","b","c","d","e","f","g","h","i","j","k","l","m",
               "n","o","p","q","r","s","t","u","v","w","x","y","z">>

LowerChar(c) ==
    IF \E k \in 1..26 : UpperCase[k] = c
    THEN LowerCase[CHOOSE k \in 1..26 : UpperCase[k] = c]
    ELSE c

\* s.lower()
RECURSIVE Lower(_)
Lower(s) ==
    IF Len(s) = 0 THEN s
    ELSE LowerChar(Char(s, 1)) \o Lower(SubSeq(s, 2, Len(s)))

\* s.split(sep)[0] for a one-character sep
SplitFirst(s, sep) ==
    IF \E i \in 1..Len(s) : Char(s, i) = sep
    THEN LET i == CHOOSE i \in 1..Len(s) :
                    /\ Char(s, i) = sep
                    /\ \A j \in 1..(i - 1) : Char(s, j) # sep
         IN  SubSeq(s, 1, i - 1)
    ELSE s

\* s.split(sep) for a one-character sep
RECURSIVE Split(_, _)
Split(s, sep) ==
    IF \E i \in 1..Len(s) : Char(s, i) = sep
    THEN LET h == SplitFirst(s, sep)
         IN  <<h>> \o Split(SubSeq(s, Len(h) + 2, Len(s)), sep)
    ELSE <<s>>

Digits == <<"0","1","2","3","4","5","6","7","8","9">>

IsDigit(c) == \E k \in 1..10 : Digits[k] = c

DigitVal(c) == (CHOOSE k \in 1..10 : Digits[k] = c) - 1

\* int(s) for a string of decimal digits
RECURSIVE DecVal(_)
DecVal(s) ==
    IF Len(s) = 0 THEN 0
    ELSE 10 * DecVal(SubSeq(s, 1, Len(s) - 1)) + DigitVal(Char(s, Len(s)))

AllDigits(s) == Len(s) > 0 /\ \A i \in 1..Len(s) : IsDigit(Char(s, i))

-----------------------------------------------------------------------------
(* ipaddress.ip_address / ipaddress.ip_network, as far as the server uses  *)
(* them.  An IPv4 address is four decimal octets without leading zeros; an *)
(* IPv6 address is recognised by its shape (hex groups, at most one "::")  *)
(* and its text is taken as canonical.  A network is address "/" prefix    *)
(* length (the netmask notation of ip_network is not modelled).            *)

Invalid == [ok |-> FALSE]

ValidOctet(p) ==
    /\ AllDigits(p)
    /\ Len(p) <= 3
    /\ (Len(p) > 1 => Char(p, 1) # "0")
    /\ DecVal(p) <= 255

ParseIPv4(s) ==
    LET parts == Split(s, ".")
    IN  IF Len(parts) = 4 /\ \A k \in 1..4 : ValidOctet(parts[k])
        THEN [ok |-> TRUE, version |-> 4,
              octets |-> [k \in 1..4 |-> DecVal(parts[k])], text |-> s]
        ELSE Invalid

HexChars == {"0","1","2","3","4","5","6","7","8","9",
             "a","b","c","d","e","f","A","B","C","D","E","F"}

IsHexGroup(p) == Len(p) \in 1..4 /\ \A i \in 1..Len(p) : Char(p, i) \in HexChars

CountOf(s, p) ==
    Cardinality({i \in 1..(Len(s) - Len(p) + 1) : SubSeq(s, i, i + Len(p) - 1) = p})

ParseIPv6(s) ==
    LET parts  == Split(s, ":")
        groups == {k \in 1..Len(parts) : parts[k] # ""}
        shape  ==
            /\ Len(parts) >= 3
            /\ \A k \in groups : IsHexGroup(parts[k])
            /\ ~Contains(s, ":::")
            /\ CountOf(s, "::") <= 1
            /\ IF Contains(s, "::")
               THEN Cardinality(groups) <= 7
               ELSE Cardinality(groups) = 8 /\ Len(parts) = 8
    IN  IF shape
        THEN [ok |-> TRUE, version |-> 6, octets |-> <<>>, text |-> Lower(s)]
        ELSE Invalid

\* ipaddress.ip_address(s); ok = FALSE stands for ValueError
ip_address(s) ==
    IF ParseIPv4(s).ok THEN ParseIPv4(s) ELSE ParseIPv6(s)

\* ipaddress.ip_network(s, strict=False); ok = FALSE stands for ValueError
ip_network(s) ==
    LET parts == Split(s, "/")
    IN  IF Len(parts) = 1 THEN
            LET a == ip_address(s)
            IN  IF a.ok THEN [ok |-> TRUE, addr |-> a,
                              prefix |-> IF a.version = 4 THEN 32 ELSE 128]
                ELSE Invalid
        ELSE IF Len(parts) = 2 THEN
            LET a == ip_address(parts[1])
            IN  IF /\ a.ok
                   /\ AllDigits(parts[2])
                   /\ Len(parts[2]) <= 3
                   /\ DecVal(parts[2]) <= (IF a.version = 4 THEN 32 ELSE 128)
                THEN [ok |-> TRUE, addr |-> a, prefix |-> DecVal(parts[2])]
                ELSE Invalid
        ELSE Invalid

Pow2(n) == CASE n = 0 -> 1 [] n = 1 -> 2 [] n = 2 -> 4 [] n = 3 -> 8 [] n = 4 -> 16
             [] n = 5 -> 32 [] n = 6 -> 64 [] n = 7 -> 128 [] OTHER -> 256

\* the number of leading bits of octet k that a prefix of n bits covers
BitsIn(n, k) ==
    LET b == n - 8 * (k - 1)
    IN  IF b < 0 THEN 0 ELSE IF b > 8 THEN 8 ELSE b

\* client in network
InNetwork(client, net) ==
    /\ client.version = net.addr.version
    /\ IF client.version = 4
       THEN \A k \in 1..4 :
               client.octets[k] \div Pow2(8 - BitsIn(net.prefix, k))
                 = net.addr.octets[k] \div Pow2(8 - BitsIn(net.prefix, k))
       ELSE client.text = net.addr.text

\* one turn of the loop of is_ip_allowed for an already parsed client:
\* "raise" (ip_network raised), "match" (return True) or "next"
EntryOutcome(client, allowed) ==
    IF Contains(allowed, "/")
    THEN IF ~ip_network(allowed).ok THEN "raise"
         ELSE IF InNetwork(client, ip_network(allowed)) THEN "match" ELSE "next"
    ELSE IF client.text = allowed THEN "match" ELSE "next"

-----------------------------------------------------------------------------
(* Requests of the review server *)

\* request.headers.get(name): NULL when the header is absent
Header(req, name) ==
    IF name \in DOMAIN req.headers THEN req.headers[name] ELSE NULL

Truthy(v) == v # NULL /\ v # ""

\* request.is_json
is_json(req) == Header(req, "Content-Type") = "application/json"

\* request.url
url_of(req) == "http://nest.example" \o req.path

\* ip_whitelist.get_real_ip()
get_real_ip(req) ==
    IF Truthy(Header(req, "X-Forwarded-For"))
    THEN Strip(SplitFirst(Header(req, "X-Forwarded-For"), ","))
    ELSE IF Truthy(Header(req, "X-Real-IP")) THEN Header(req, "X-Real-IP")
    ELSE IF Truthy(Header(req, "CF-Connecting-IP")) THEN Header(req, "CF-Connecting-IP")
    ELSE req.remote_addr

\* main.enhanced_instant_block_security: the address the gate works with;
\* NULL or "" makes the gate return at once
enhanced_client_ip(req) ==
    LET raw == IF "X-Forwarded-For" \in DOMAIN req.headers
               THEN req.headers["X-Forwarded-For"] ELSE req.remote_addr
    IN  IF Truthy(raw) THEN Strip(SplitFirst(raw, ",")) ELSE NULL

-----------------------------------------------------------------------------
(* EnhancedBlacklistManager *)

malicious_paths ==
    << "/wp-admin", "/wp-login", "/phpmyadmin", "/admin/config",
       "/.env", "/shell", "/cmd", "/eval", "/system",
       "/etc/passwd", "/proc/version", "/boot.ini",
       "/cgi-bin", "/scripts", "/HNAP1", "/GponForm",
       "/api/v1/auth", "/solr/admin", "/jenkins",
       "/actuator", "/debug", "/console", "/manager",
       "/invoker", "/axis2", "/struts", "/drupal",
       "/security.txt", "/robots.txt", "/sitemap.xml" >>

malicious_methods == {"CONNECT", "TRACE", "TRACK"}

malicious_agents ==
    << "bot", "crawler", "spider", "scan", "hack", "exploit",
       "nmap", "sqlmap", "nikto", "dirb", "gobuster",
       "masscan", "zmap", "nuclei", "burp", "owasp",
       "python-requests", "curl", "wget" >>

malicious_urls ==
    << "api.ipify.org", "shadowserver.org", "httpbin.org",
       "webhook.site", "ngrok.io", "requestbin.com" >>

sql_patterns == << "union", "select", "drop", "insert", "update", "delete",
                   "'", "\"", ";--" >>

xss_patterns == << "<script", "javascript:", "onerror=", "onload=", "alert(" >>

traversal_patterns == << "../", "..\\", "%2e%2e", "%252e" >>

\* (the code's list also holds the backquote, a character a TLA+ string
\* cannot hold; no path of the model contains one)
cmd_patterns == << "|", "&&", "||", ";", "$(" >>

proxy_header_words == << "proxy", "tunnel", "forward" >>

suspicious_prefixes == << "MGLNDD", "CONNECT_", "TUNNEL_", "PROXY_" >>

\* the index of the first pattern of the list that occurs in s, 0 if none
FirstIn(patterns, s) ==
    IF \E k \in 1..Len(patterns) : Contains(s, patterns[k])
    THEN CHOOSE k \in 1..Len(patterns) :
            /\ Contains(s, patterns[k])
            /\ \A j \in 1..(k - 1) : ~Contains(s, patterns[j])
    ELSE 0

IsWordChar(c) ==
    \/ IsDigit(c)
    \/ c = "_"
    \/ \E k \in 1..26 : UpperCase[k] = c \/ LowerCase[k] = c

\* characters below 32 other than tab, newline and carriage return (of
\* those TLA+ can write, the form feed)
IsBinaryChar(c) == c \in {"\f"}

\* re.search(r'\b(?:[0-9]{1,3}\.){3}[0-9]{1,3}\b', s)
HasIPv4Pattern(s) ==
    \E i \in 1..Len(s) : \E l1, l2, l3, l4 \in 1..3 :
        LET d1 == i
            d2 == d1 + l1 + 1
            d3 == d2 + l2 + 1
            d4 == d3 + l3 + 1
            e  == d4 + l4 - 1
        IN  /\ e <= Len(s)
            /\ AllDigits(SubSeq(s, d1, d1 + l1 - 1))
            /\ Char(s, d2 - 1) = "."
            /\ AllDigits(SubSeq(s, d2, d2 + l2 - 1))
            /\ Char(s, d3 - 1) = "."
            /\ AllDigits(SubSeq(s, d3, d3 + l3 - 1))
            /\ Char(s, d4 - 1) = "."
            /\ AllDigits(SubSeq(s, d4, e))
            /\ (i = 1 \/ ~IsWordChar(Char(s, i - 1)))
            /\ (e = Len(s) \/ ~IsWordChar(Char(s, e + 1)))

\* the header names of dict(request.headers), in a fixed order
HeaderOrder == << "Host", "User-Agent", "Content-Type", "Cookie",
                  "X-Forwarded-For", "X-Real-IP", "CF-Connecting-IP" >>

HeaderNameIsProxy(n) == FirstIn(proxy_header_words, Lower(n)) # 0

\* is_malicious_pattern looking at the traversal patterns only
MutPatternTraversalOnly(ip, method, path, user_agent, headers) ==
    IF FirstIn(traversal_patterns, Lower(path)) # 0
    THEN "traversal: " \o traversal_patterns[FirstIn(traversal_patterns, Lower(path))]
    ELSE NULL

\* is_malicious_pattern: the reason, or NULL for None.  The reasons are
\* written in ASCII: bad_path (악성경로), bad_method (악성메소드), bad_agent
\* (악성Agent), bad_url (악성URL), sql (SQL인젝션), xss (XSS시도), traversal
\* (디렉토리순회), cmd (명령어인젝션), proxy_header (프록시헤더), path_length
\* (비정상경로길이), agent_length (비정상Agent길이), binary (바이너리데이터),
\* bad_request (비정상요청), ip_in_path (IP포함경로)
is_malicious_pattern(ip, method, path, user_agent, headers) ==
    LET path_lower       == Lower(path)
        user_agent_lower == IF user_agent # "" THEN Lower(user_agent) ELSE ""
        proxies == {k \in 1..Len(HeaderOrder) :
                       /\ HeaderOrder[k] \in DOMAIN headers
                       /\ HeaderNameIsProxy(HeaderOrder[k])}
    IN  IF FirstIn(malicious_paths, path_lower) # 0
        THEN "bad_path: " \o malicious_paths[FirstIn(malicious_paths, path_lower)]
        ELSE IF method \in malicious_methods
        THEN "bad_method: " \o method
        ELSE IF FirstIn(malicious_agents, user_agent_lower) # 0
        THEN "bad_agent: " \o malicious_agents[FirstIn(malicious_agents, user_agent_lower)]
        ELSE IF FirstIn(malicious_urls, path_lower) # 0
        THEN "bad_url: " \o malicious_urls[FirstIn(malicious_urls, path_lower)]
        ELSE IF FirstIn(sql_patterns, path_lower) # 0
        THEN "sql: " \o sql_patterns[FirstIn(sql_patterns, path_lower)]
        ELSE IF FirstIn(xss_patterns, path_lower) # 0
        THEN "xss: " \o xss_patterns[FirstIn(xss_patterns, path_lower)]
        ELSE IF FirstIn(traversal_patterns, path_lower) # 0
        THEN "traversal: " \o traversal_patterns[FirstIn(traversal_patterns, path_lower)]
        ELSE IF FirstIn(cmd_patterns, path_lower) # 0
        THEN "cmd: " \o cmd_patterns[FirstIn(cmd_patterns, path_lower)]
        ELSE IF proxies # {}
        THEN "proxy_header: " \o HeaderOrder[CHOOSE k \in proxies : \A j \in proxies : k <= j]
        ELSE IF Len(path) > 1000
        THEN "path_length"
        ELSE IF user_agent # "" /\ Len(user_agent) > 500
        THEN "agent_length"
        ELSE IF \E i \in 1..Len(path) : IsBinaryChar(Char(path, i))
        THEN "binary"
        ELSE IF \E k \in 1..Len(suspicious_prefixes) :
                   Contains(path, suspicious_prefixes[k])
                     \/ Contains(method, suspicious_prefixes[k])
        THEN "bad_request: " \o suspicious_prefixes[
                 CHOOSE k \in 1..Len(suspicious_prefixes) :
                    /\ Contains(path, suspicious_prefixes[k])
                         \/ Contains(method, suspicious_prefixes[k])
                    /\ \A j \in 1..(k - 1) :
                         ~(Contains(path, suspicious_prefixes[j])
                             \/ Contains(method, suspicious_prefixes[j]))]
        ELSE IF HasIPv4Pattern(path) /\ ~StartsWith(path, "/api/storage-image/")
        THEN "ip_in_path"
        ELSE NULL

\* a function with an empty domain: the empty JSON object
EmptyDict == [k \in {} |-> NULL]

\* d with d[k] = v
Put(d, k, v) == [x \in DOMAIN d \cup {k} |-> IF x = k THEN v ELSE d[x]]

\* d without key k
Del(d, k) == [x \in DOMAIN d \ {k} |-> d[x]]

Prefix(s, n) == SubSeq(s, 1, IF Len(s) < n THEN Len(s) ELSE n)

\* add_ip that writes a fresh record over the one already there
MutAddIpOverwrites(bl, ip, reason, method, url, user_agent, current_time) ==
    Put(bl, ip,
        [ first_blocked |-> current_time,
          last_attempt  |-> current_time,
          reason        |-> reason,
          method        |-> method,
          url           |-> url,
          user_agent    |-> IF user_agent # "" THEN Prefix(user_agent, 200) ELSE "",
          attempts      |-> 1,
          blocked_by    |-> "auto_detection" ])

\* add_ip on the loaded blacklist bl; the result is what save_blacklist writes
add_ip(bl, ip, reason, method, url, user_agent, current_time) ==
    IF ip \in DOMAIN bl
    THEN LET e1 == [[bl[ip] EXCEPT !.attempts = @ + 1]
                        EXCEPT !.last_attempt = current_time]
             e2 == IF url # "" THEN Put(e1, "last_url", url) ELSE e1
             e3 == IF method # "" THEN Put(e2, "last_method", method) ELSE e2
         IN  Put(bl, ip, e3)
    ELSE Put(bl, ip,
             [ first_blocked |-> current_time,
               last_attempt  |-> current_time,
               reason        |-> reason,
               method        |-> method,
               url           |-> url,
               user_agent    |-> IF user_agent # "" THEN Prefix(user_agent, 200) ELSE "",
               attempts      |-> 1,
               blocked_by    |-> "auto_detection" ])

\* is_blacklisted when load_blacklist falls into its except branch
MutIsBlacklistedLoadFails(bl, ip) == ip \in DOMAIN EmptyDict

is_blacklisted(bl, ip) == ip \in DOMAIN bl

\* remove_ip: the blacklist it leaves
remove_ip(bl, ip) == IF ip \in DOMAIN bl THEN Del(bl, ip) ELSE bl

-----------------------------------------------------------------------------
(* The requests the model sends to the review server *)

BrowserAgent == "Mozilla/5.0 (X11; Linux x86_64; rv:128.0) Gecko/20100101 Firefox/128.0"
CurlAgent    == "curl/8.5.0"

\* the header dictionary holding the given values (NULL: header absent)
Headers(ua, ctype, xff, xreal) ==
    LET all == [n \in {"Host", "User-Agent", "Content-Type",
                       "X-Forwarded-For", "X-Real-IP"} |->
                   CASE n = "Host" -> "nest.example"
                     [] n = "User-Agent" -> ua
                     [] n = "Content-Type" -> ctype
                     [] n = "X-Forwarded-For" -> xff
                     [] n = "X-Real-IP" -> xreal]
    IN  [n \in {m \in DOMAIN all : all[m] # NULL} |-> all[n]]

\* json: the ip_address value of a JSON body; form: the login form
Req(remote, hdrs, method, path, json, form) ==
    [remote_addr |-> remote, headers |-> hdrs, method |-> method,
     path |-> path, json |-> json, form |-> form]

NoForm == [username |-> NULL, password |-> NULL]

Plain     == Headers(BrowserAgent, NULL, NULL, NULL)
JsonHdrs  == Headers(BrowserAgent, "application/json", NULL, NULL)

LocalAddr    == "127.0.0.1"
ExternalAddr == "203.0.113.9"
PrivateAddr  == "10.1.2.3"

WhitelistAddInputs == {"", "bad", " 2001:db8::5 ", "203.0.113.9", "127.0.0.1"}

WhitelistDeleteInputs == {"::1", "2001:db8::5", "127.0.0.1", "203.0.113.9"}

LoginForms == { [username |-> "admin", password |-> "admin-pw"],
                [username |-> "kim",   password |-> "kim-pw"],
                [username |-> "admin", password |-> "guess"] }

LocalRequests ==
    {Req(LocalAddr, Plain, "GET", p, NULL, NoForm) :
        p \in {"/", "/api/admin/whitelist", "/logout", "/login", "/wp-admin",
               "/api/debug/test-priority", "/api/debug/priority-system",
               "/favicon.ico"}}
    \cup {Req(LocalAddr, JsonHdrs, "GET", "/", NULL, NoForm)}
    \cup {Req(LocalAddr, JsonHdrs, "POST", "/api/admin/whitelist", a, NoForm) :
            a \in WhitelistAddInputs}
    \cup {Req(LocalAddr, Plain, "DELETE", "/api/admin/whitelist/" \o a, NULL, NoForm) :
            a \in WhitelistDeleteInputs}
    \cup {Req(LocalAddr, Plain, "POST", "/login", NULL, f) : f \in LoginForms}
    \cup {Req(LocalAddr, Plain, m, "/", NULL, NoForm) : m \in {"TRACE", "MGLNDD_X"}}
    \cup {Req(LocalAddr, Headers(CurlAgent, NULL, NULL, NULL), "GET", "/", NULL, NoForm)}

ExternalRequests ==
    {Req(ExternalAddr, Plain, "GET", p, NULL, NoForm) :
        p \in {"/", "/api/admin/whitelist", "/wp-admin"}}

\* relayed by a reverse proxy on the local host
ProxiedRequests ==
    {Req(LocalAddr, Headers(BrowserAgent, NULL, x, NULL), "GET", "/", NULL, NoForm) :
        x \in {PrivateAddr, ExternalAddr \o ", 10.0.0.1"}}

\* carrying an X-Real-IP header
RealIpRequests ==
    {Req(ExternalAddr, Headers(BrowserAgent, NULL, NULL, LocalAddr), "GET", p, NULL, NoForm) :
        p \in {"/", "/api/admin/whitelist", "/wp-admin"}}

Requests == LocalRequests \cup ExternalRequests \cup ProxiedRequests \cup RealIpRequests

-----------------------------------------------------------------------------
(* Values computed once per request or address string *)

UserAgentOf(req) == IF Header(req, "User-Agent") = NULL THEN "" ELSE Header(req, "User-Agent")

RealIpOf == [r \in Requests |-> get_real_ip(r)]

GateIpOf == [r \in Requests |-> enhanced_client_ip(r)]

ReasonOf == [r \in Requests |->
                is_malicious_pattern(GateIpOf[r], r.method, r.path,
                                     UserAgentOf(r), r.headers)]

\* main.load_whitelist: default_data
default_data ==
    << [ip_address |-> "127.0.0.1",       description |-> "localhost",      is_default |-> TRUE,  created_at |-> 0],
       [ip_address |-> "::1",             description |-> "IPv6 localhost", is_default |-> TRUE,  created_at |-> 0],
       [ip_address |-> "192.168.0.0/16",  description |-> "private range",  is_default |-> TRUE,  created_at |-> 0],
       [ip_address |-> "10.0.0.0/8",      description |-> "private range",  is_default |-> TRUE,  created_at |-> 0],
       [ip_address |-> "172.16.0.0/12",   description |-> "private range",  is_default |-> TRUE,  created_at |-> 0],
       [ip_address |-> "175.193.255.236", description |-> "main user",      is_default |-> FALSE, created_at |-> 0] >>

\* every string that can stand in the ip_address column
EntryStrings ==
    {default_data[k].ip_address : k \in 1..Len(default_data)}
        \cup {Strip(a) : a \in WhitelistAddInputs}

ClientStrings == {RealIpOf[r] : r \in Requests}

ParsedClient == [c \in ClientStrings |-> ip_address(c)]

OutcomeOf == [c \in {x \in ClientStrings : ParsedClient[x].ok} |->
                 [e \in EntryStrings |-> EntryOutcome(ParsedClient[c], e)]]

\* ValueError of the validation in add_to_whitelist
AddressValid == [a \in EntryStrings |->
                    IF Contains(a, "/") THEN ip_network(a).ok ELSE ip_address(a).ok]

\* the loop of is_ip_allowed over the allowed strings, from entry k on; an
\* unparsable network raises inside the try and the answer is False
RECURSIVE AllowedFrom(_, _, _)
AllowedFrom(ip, allowed, k) ==
    IF k > Len(allowed) THEN FALSE
    ELSE CASE OutcomeOf[ip][allowed[k]] = "raise" -> FALSE
           [] OutcomeOf[ip][allowed[k]] = "match" -> TRUE
           [] OTHER -> AllowedFrom(ip, allowed, k + 1)

\* load_whitelist_ips(): the ip_address column of whitelist.json
load_whitelist_ips(file) == [k \in 1..Len(file) |-> file[k].ip_address]

\* is_ip_allowed(ip), reading whitelist.json anew
is_ip_allowed(ip, file) ==
    IF ~ParsedClient[ip].ok THEN FALSE
    ELSE AllowedFrom(ip, load_whitelist_ips(file), 1)

-----------------------------------------------------------------------------
(* The two before_request hooks, in the order they are registered *)

StandardMethods == {"GET", "POST", "PUT", "DELETE", "HEAD", "OPTIONS", "PATCH"}

Pass(bl) == [blocked |-> FALSE, by |-> NULL, blacklist |-> bl]

Block(by, bl) == [blocked |-> TRUE, by |-> by, blacklist |-> bl]

\* init_ip_whitelist.check_ip_whitelist
check_ip_whitelist(req, bl, file, t) ==
    LET client_ip == RealIpOf[req]
    IN  IF ~is_ip_allowed(client_ip, file)
        THEN Block("whitelist",
                   add_ip(bl, client_ip, "outside_whitelist", req.method,
                          url_of(req), UserAgentOf(req), t))
        ELSE Pass(bl)

\* main.enhanced_instant_block_security
enhanced_instant_block_security(req, bl, t) ==
    LET client_ip    == GateIpOf[req]
        user_agent   == UserAgentOf(req)
        method       == req.method
        request_line == method \o " " \o req.path
        hit(k)       == Contains(request_line, suspicious_prefixes[k])
                          \/ Contains(method, suspicious_prefixes[k])
    IN  IF client_ip = NULL THEN Pass(bl)
        ELSE IF is_blacklisted(bl, client_ip) THEN Block("blacklist", bl)
        ELSE IF /\ method # ""
                /\ method \notin StandardMethods
                /\ (Contains(method, "MGLNDD") \/ Contains(method, "_"))
        THEN Block("method",
                   add_ip(bl, client_ip, "bad_method_name: " \o method, method,
                          url_of(req), user_agent, t))
        ELSE IF \E k \in 1..Len(suspicious_prefixes) : hit(k)
        THEN Block("request_line",
                   add_ip(bl, client_ip,
                          "bad_request: " \o suspicious_prefixes[
                              CHOOSE k \in 1..Len(suspicious_prefixes) :
                                  hit(k) /\ \A j \in 1..(k - 1) : ~hit(j)],
                          method, request_line, user_agent, t))
        ELSE IF ReasonOf[req] # NULL
        THEN Block("pattern",
                   add_ip(bl, client_ip, ReasonOf[req], method, url_of(req),
                          user_agent, t))
        ELSE Pass(bl)

\* Flask runs the hooks in order and stops at the first that answers
before_request(req, bl, file, t) ==
    LET w == check_ip_whitelist(req, bl, file, t)
    IN  IF w.blocked THEN w ELSE enhanced_instant_block_security(req, bl, t)

-----------------------------------------------------------------------------
(* Authentication (src/src/auth.py) *)

\* hashlib.sha256(password).hexdigest(), an injective image of the password
hash_password(password) == "sha256(" \o password \o ")"

\* the rows of the backend table users
users ==
    { [id |-> "1", username |-> "admin", password_hash |-> hash_password("admin-pw"),
       role |-> "admin", name |-> "Admin", is_active |-> TRUE],
      [id |-> "2", username |-> "kim", password_hash |-> hash_password("kim-pw"),
       role |-> "reviewer", name |-> "Kim", is_active |-> TRUE] }

\* AuthManager.login_user: the session after the call, and its result
login_user(sess, username, password, t) ==
    LET found == {u \in users : u.username = username /\ u.is_active}
    IN  IF found # {} /\ (CHOOSE u \in found : TRUE).password_hash = hash_password(password)
        THEN LET user == CHOOSE u \in found : TRUE
             IN  [ok |-> TRUE,
                  session |-> [user_id |-> user.id, username |-> user.username,
                               user_role |-> user.role, user_name |-> user.name,
                               login_time |-> t]]
        ELSE [ok |-> FALSE, session |-> sess]

\* AuthManager.is_logged_in
is_logged_in(sess) == "user_id" \in DOMAIN sess

\* AuthManager.get_current_user
get_current_user(sess) ==
    IF is_logged_in(sess)
    THEN [id |-> sess.user_id, username |-> sess.username,
          role |-> sess.user_role, name |-> sess.user_name]
    ELSE NULL

Response(status, body) == [status |-> status, body |-> body]

\* a decorator that lets the handler run answers nothing
NoResponse == Response(0, "")

\* login_required: the response that replaces the handler, NoResponse to run it
login_required(req, sess) ==
    IF ~is_logged_in(sess)
    THEN IF is_json(req) THEN Response(401, "json: login needed")
         ELSE Response(302, "redirect: login")
    ELSE NoResponse

\* admin_required without the role test
MutAdminRequiredAnyRole(req, sess) ==
    IF ~is_logged_in(sess) THEN Response(401, "json: login needed")
    ELSE NoResponse

\* admin_required: the response that replaces the handler, NoResponse to run it
admin_required(req, sess) ==
    IF ~is_logged_in(sess) THEN Response(401, "json: login needed")
    ELSE IF get_current_user(sess).role # "admin"
         THEN Response(403, "json: admin needed")
         ELSE NoResponse

-----------------------------------------------------------------------------
(* Routes of the review server and their handlers *)

WhitelistPrefix == "/api/admin/whitelist/"

\* the URL map: the view function and its decorator, by path and method
\* (handler NULL with status 404 or 405 when nothing matches)
Route(method, path) ==
    LET rule(handler, auth, methods) ==
            IF method \in methods \cup {"OPTIONS"} \cup
                          (IF "GET" \in methods THEN {"HEAD"} ELSE {})
            THEN [handler |-> handler, auth |-> auth, status |-> 200]
            ELSE [handler |-> NULL, auth |-> "none", status |-> 405]
    IN  CASE path = "/" -> rule("index", "login", {"GET"})
          [] path = "/login" -> rule("login", "none", {"GET", "POST"})
          [] path = "/logout" -> rule("logout", "none", {"GET"})
          [] path = "/api/admin/whitelist" ->
                IF method = "POST"
                THEN rule("add_to_whitelist", "admin", {"POST"})
                ELSE rule("get_whitelist", "admin", {"GET", "POST"})
          [] StartsWith(path, WhitelistPrefix) /\ Len(path) > Len(WhitelistPrefix) ->
                rule("remove_from_whitelist", "admin", {"DELETE"})
          [] path = "/api/debug/test-priority" ->
                rule("test_priority_algorithm", "admin", {"GET"})
          [] path = "/api/debug/priority-system" ->
                rule("debug_priority_system", "admin", {"GET"})
          [] OTHER -> [handler |-> NULL, auth |-> "none", status |-> 404]

\* what a view function leaves: the response and the state it wrote
Result(resp, sess, data, file) ==
    [resp |-> resp, session |-> sess, whitelist_data |-> data, whitelist_file |-> file]

\* main.login
login(req, sess, data, file, t) ==
    IF req.method = "POST"
    THEN LET r == login_user(sess, req.form.username, req.form.password, t)
         IN  IF r.ok THEN Result(Response(302, "redirect: index"), r.session, data, file)
             ELSE Result(Response(200, "html: login, error"), sess, data, file)
    ELSE Result(Response(200, "html: login"), sess, data, file)

\* main.logout: session.clear()
logout(req, sess, data, file, t) ==
    Result(Response(302, "redirect: login"), EmptyDict, data, file)

\* main.add_to_whitelist; save_whitelist writes the list to whitelist.json
add_to_whitelist(req, sess, data, file, t) ==
    LET ip_address_ == Strip(IF req.json = NULL THEN "" ELSE req.json)
        new_item == [ip_address |-> ip_address_, description |-> "no description",
                     is_default |-> FALSE, created_at |-> t]
    IN  IF ip_address_ = ""
        THEN Result(Response(400, "json: address needed"), sess, data, file)
        ELSE IF ~AddressValid[ip_address_]
        THEN Result(Response(400, "json: invalid address"), sess, data, file)
        ELSE IF \E k \in 1..Len(data) : data[k].ip_address = ip_address_
        THEN Result(Response(400, "json: already registered"), sess, data, file)
        ELSE Result(Response(200, "json: success"), sess,
                    Append(data, new_item), Append(data, new_item))

\* remove_from_whitelist without the test for default entries
MutRemoveFromWhitelistAny(req, sess, data, file, t) ==
    LET ip   == SubSeq(req.path, Len(WhitelistPrefix) + 1, Len(req.path))
        kept == SelectSeq(data, LAMBDA item : item.ip_address # ip)
    IN  Result(Response(200, "json: success"), sess, kept, kept)

\* main.remove_from_whitelist
remove_from_whitelist(req, sess, data, file, t) ==
    LET ip   == SubSeq(req.path, Len(WhitelistPrefix) + 1, Len(req.path))
        kept == SelectSeq(data, LAMBDA item : item.ip_address # ip)
    IN  IF \E k \in 1..Len(data) : data[k].ip_address = ip /\ data[k].is_default
        THEN Result(Response(400, "json: default entry"), sess, data, file)
        ELSE Result(Response(200, "json: success"), sess, kept, kept)

\* the view function named by the route
View(handler, req, sess, data, file, t) ==
    CASE handler = "login" -> login(req, sess, data, file, t)
      [] handler = "logout" -> logout(req, sess, data, file, t)
      [] handler = "add_to_whitelist" -> add_to_whitelist(req, sess, data, file, t)
      [] handler = "remove_from_whitelist" -> remove_from_whitelist(req, sess, data, file, t)
      [] handler = "index" -> Result(Response(200, "html: index"), sess, data, file)
      [] handler = "get_whitelist" -> Result(Response(200, "json: whitelist"), sess, data, file)
      [] OTHER -> Result(Response(200, "json: " \o handler), sess, data, file)

\* the decorator of the route
Decorator(auth, req, sess) ==
    CASE auth = "login" -> login_required(req, sess)
      [] auth = "admin" -> admin_required(req, sess)
      [] OTHER -> NoResponse

-----------------------------------------------------------------------------
(* One request to the review server, from the hooks to the response *)

Request(req) ==
    /\ now < MaxTime
    /\ now' = now + 1
    /\ UNCHANGED <<dbVars, demoVars, libVars>>
    /\ LET gate  == before_request(req, blacklist, whitelist_file, now)
           route == Route(req.method, req.path)
           deny  == Decorator(route.auth, req, session)
       IN  IF gate.blocked
           THEN /\ blacklist' = gate.blacklist
                /\ UNCHANGED <<whitelist_data, whitelist_file, session>>
                /\ last' = [req |-> req, status |-> 403, body |-> "",
                            handler |-> NULL, gate |-> gate.by]
           ELSE IF route.handler = NULL
           THEN /\ UNCHANGED <<blacklist, whitelist_data, whitelist_file, session>>
                /\ last' = [req |-> req, status |-> route.status, body |-> "html: error",
                            handler |-> NULL, gate |-> NULL]
           ELSE IF deny # NoResponse
           THEN /\ UNCHANGED <<blacklist, whitelist_data, whitelist_file, session>>
                /\ last' = [req |-> req, status |-> deny.status, body |-> deny.body,
                            handler |-> NULL, gate |-> NULL]
           ELSE LET r == View(route.handler, req, session, whitelist_data,
                              whitelist_file, now)
                IN  /\ UNCHANGED blacklist
                    /\ session' = r.session
                    /\ whitelist_data' = r.whitelist_data
                    /\ whitelist_file' = r.whitelist_file
                    /\ last' = [req |-> req, status |-> r.resp.status,
                                body |-> r.resp.body, handler |-> route.handler,
                                gate |-> NULL]

\* a session cookie outlives the server: a browser may already hold one
Sessions ==
    {EmptyDict}
      \cup {login_user(EmptyDict, f.username, f.password, 0).session : f \in LoginForms}

NoRequest == [req |-> Req("", EmptyDict, "", "", NULL, NoForm), status |-> 0, body |-> "", handler |-> NULL, gate |-> NULL]

\* no backend handler has been called
NoReply == [op |-> NULL, input |-> NULL, status |-> 0, success |-> FALSE, data |-> <<>>]

\* the labeling backend with empty tables
DbIdle ==
    /\ labeled_images = <<>>
    /\ pending_review_files = <<>>
    /\ insect_species = <<>>
    /\ uploads = {}
    /\ reply = NoReply

\* no request has been made to the demo
NoDemoReply == [op |-> NULL, input |-> NULL, status |-> 0, success |-> FALSE,
                stages |-> {}]

\* the demo application with empty folders and a browser without a cookie
DemoIdle ==
    /\ upload_dir = {}
    /\ results_dir = {}
    /\ demo_session = EmptyDict
    /\ classification_storage = EmptyDict
    /\ demo_reply = NoDemoReply

\* the threads of the demo server that may be inside a social storage call
Threads == {1, 2}

\* a thread that is in no call
NoCall == [op |-> NULL, filename |-> NULL, user_id |-> NULL, text |-> NULL,
           data |-> EmptyDict]

\* no social storage call has finished
NoSocialReply == [op |-> NULL, filename |-> NULL, user_id |-> NULL, liked |-> FALSE,
                  count |-> 0, before |-> <<>>]

\* the social storage as SocialStorage.__init__ leaves a new file
SocialIdle ==
    /\ social_data = EmptyDict
    /\ social_calls = [t \in Threads |-> NoCall]
    /\ social_reply = NoSocialReply
    /\ toggled = {}

\* no library function has been called
NoCallYet == [fn |-> NULL]

\* no save request in flight, nothing cached
NoSave == [pc |-> "idle"]

WorkIdle ==
    /\ save_calls = [t \in Threads |-> NoSave]
    /\ taxonomy_cache = EmptyDict
    /\ cache_timestamp = EmptyDict
    /\ cache_params = EmptyDict

LibIdle ==
    /\ SocialIdle
    /\ WorkIdle
    /\ lib_call = NoCallYet
    /\ lib_result = NoCallYet

InitGate ==
    /\ blacklist = EmptyDict
    /\ whitelist_data = default_data
    /\ whitelist_file = default_data
    /\ session \in Sessions
    /\ now = 1
    /\ last = NoRequest
    /\ DbIdle
    /\ DemoIdle
    /\ LibIdle

NextGate == \E req \in Requests : Request(req)

SpecGate == InitGate /\ [][NextGate]_vars

-----------------------------------------------------------------------------
(* Claims about the review server's gates and decorators (SpecGate) *)

RouteOf(r) == Route(r.req.method, r.req.path)

IsAdmin(sess) == is_logged_in(sess) /\ sess.user_role = "admin"

\* C1: the handler of an admin_required route runs only for a logged-in
\* session whose role is admin (401 without login, 403 for another role);
\* the handler of a login_required route runs only for a logged-in session
\* (otherwise 401 JSON for a JSON request, a redirect to login for any other)
C1_Decorators ==
    [][ LET r == last'
            reached == r.gate = NULL /\ RouteOf(r).handler # NULL
        IN  /\ RouteOf(r).auth = "admin" =>
                /\ r.handler # NULL => IsAdmin(session)
                /\ reached /\ ~is_logged_in(session) =>
                      r.handler = NULL /\ r.status = 401
                /\ reached /\ is_logged_in(session) /\ ~IsAdmin(session) =>
                      r.handler = NULL /\ r.status = 403
            /\ RouteOf(r).auth = "login" =>
                /\ r.handler # NULL => is_logged_in(session)
                /\ reached /\ ~is_logged_in(session) =>
                      /\ r.handler = NULL
                      /\ IF is_json(r.req)
                         THEN r.status = 401 /\ r.body = "json: login needed"
                         ELSE r.status = 302 /\ r.body = "redirect: login"
      ]_vars

\* a logged-in reviewer was refused on an admin route
C1_Witness ==
    /\ RouteOf(last).auth = "admin"
    /\ last.status = 403
    /\ last.gate = NULL
    /\ is_logged_in(session)
    /\ session.user_role = "reviewer"

\* C2: a request whose address, as the enhanced gate resolves it, is in the
\* blacklist gets an empty 403 and no handler runs, whitelisted or not
C2_BlacklistedStaysBlocked ==
    [][ LET r == last'
        IN  GateIpOf[r.req] \in DOMAIN blacklist =>
                r.status = 403 /\ r.body = "" /\ r.handler = NULL
      ]_vars

\* a whitelisted address was stopped by the blacklist step of the gate
C2_Witness ==
    /\ last.gate = "blacklist"
    /\ is_ip_allowed(RealIpOf[last.req], whitelist_file)
    /\ GateIpOf[last.req] \in DOMAIN blacklist

\* C3: a request from an address outside the whitelist gets an empty 403, no
\* handler runs, and the address is blacklisted: a first rejection creates the
\* record with attempts = 1, a further one adds exactly 1 to attempts and
\* leaves first_blocked and reason as they were
C3_WhitelistRejection ==
    [][ LET r  == last'
            ip == RealIpOf[r.req]
        IN  ~is_ip_allowed(ip, whitelist_file) =>
                /\ r.status = 403 /\ r.body = "" /\ r.handler = NULL
                /\ ip \in DOMAIN blacklist'
                /\ ip \notin DOMAIN blacklist => blacklist'[ip].attempts = 1
                /\ ip \in DOMAIN blacklist =>
                      /\ blacklist'[ip].attempts = blacklist[ip].attempts + 1
                      /\ blacklist'[ip].first_blocked = blacklist[ip].first_blocked
                      /\ blacklist'[ip].reason = blacklist[ip].reason
      ]_vars

\* an address first blacklisted for a malicious path was rejected by the
\* whitelist gate afterwards
C3_Witness ==
    /\ last.gate = "whitelist"
    /\ RealIpOf[last.req] \in DOMAIN blacklist
    /\ blacklist[RealIpOf[last.req]].attempts = 2
    /\ blacklist[RealIpOf[last.req]].reason # "outside_whitelist"
    /\ blacklist[RealIpOf[last.req]].first_blocked < blacklist[RealIpOf[last.req]].last_attempt

IsWhitelistAdd(r) == r.req.method = "POST" /\ r.req.path = "/api/admin/whitelist"

IsWhitelistDelete(r) ==
    r.req.method = "DELETE" /\ StartsWith(r.req.path, WhitelistPrefix)

AddedAddress(r) == Strip(IF r.req.json = NULL THEN "" ELSE r.req.json)

DeletedAddress(r) == SubSeq(r.req.path, Len(WhitelistPrefix) + 1, Len(r.req.path))

\* C8: every default entry stays in the whitelist and no address occurs twice;
\* an add of an empty, invalid or already-present address and a delete of a
\* default entry answer with an error and change neither list nor file
C8_WhitelistAdmin ==
    /\ [](/\ \A k \in 1..Len(default_data) :
               default_data[k].is_default =>
                   \E j \in 1..Len(whitelist_data) : whitelist_data[j] = default_data[k]
          /\ \A i, j \in 1..Len(whitelist_data) :
               whitelist_data[i].ip_address = whitelist_data[j].ip_address => i = j)
    /\ [][ LET r == last'
           IN  /\ (/\ IsWhitelistAdd(r)
                   /\ \/ AddedAddress(r) = ""
                      \/ ~AddressValid[AddedAddress(r)]
                      \/ \E k \in 1..Len(whitelist_data) :
                            whitelist_data[k].ip_address = AddedAddress(r))
                  => /\ r.status >= 400
                     /\ UNCHANGED <<whitelist_data, whitelist_file>>
               /\ (/\ IsWhitelistDelete(r)
                   /\ \E k \in 1..Len(whitelist_data) :
                         /\ whitelist_data[k].ip_address = DeletedAddress(r)
                         /\ whitelist_data[k].is_default)
                  => /\ r.status >= 400
                     /\ UNCHANGED <<whitelist_data, whitelist_file>>
         ]_vars

\* the handler refused to delete a default entry, after entries were added
C8_Witness ==
    /\ last.handler = "remove_from_whitelist"
    /\ last.status = 400
    /\ Len(whitelist_data) > Len(default_data)

\* the request of the step has a standard method, a browser's user-agent and
\* no forwarding header, comes from an address of the whitelist that is not on
\* the blacklist, and goes to a route of the server with one of its methods
DocumentedRequest(r) ==
    /\ r.req.method \in StandardMethods
    /\ r.req.headers \in {Plain, JsonHdrs}
    /\ is_ip_allowed(RealIpOf[r.req], whitelist_file)
    /\ RealIpOf[r.req] \notin DOMAIN blacklist
    /\ GateIpOf[r.req] \notin DOMAIN blacklist
    /\ Route(r.req.method, r.req.path).handler # NULL

\* C20 as stated: a request with a standard method and a browser's
\* user-agent, from a whitelisted address that is not blacklisted, to a
\* documented route with its method, is not rejected by the security
\* middleware and leaves the blacklist as it was.
C20_DocumentedRoutesPass ==
    [][ DocumentedRequest(last') =>
            /\ last'.gate = NULL
            /\ blacklist' = blacklist
      ]_vars

\* the address is on the whitelist through an entry an administrator added,
\* and every rejection the blacklist holds against it is older than the entry
AddedSinceLastRejection(addr) ==
    \E k \in 1..Len(whitelist_file) :
        /\ whitelist_file[k].ip_address = addr
        /\ ~whitelist_file[k].is_default
        /\ addr \in DOMAIN blacklist
             => blacklist[addr].last_attempt < whitelist_file[k].created_at

\* C21: once an administrator has added an address to the whitelist, a
\* request of that address with a standard method, a benign path and a
\* browser's user-agent is not answered 403, even if requests of the
\* address were rejected before the address was added.
C21_WhitelistedIsServed ==
    [][ LET r == last'
        IN  (/\ r.req.method \in StandardMethods
             /\ r.req.headers = Plain
             /\ ReasonOf[r.req] = NULL
             /\ AddedSinceLastRejection(r.req.remote_addr))
              => r.status # 403
      ]_vars

\* C22: a request relayed by a reverse proxy, whose X-Forwarded-For header
\* names a client address that is on the whitelist and not on the blacklist,
\* with a standard method, path / and a browser's user-agent, passes the
\* whitelist gate and the instant-block gate and leaves the blacklist as it
\* was.
C22_RelayedRequestPasses ==
    [][ LET r == last'
        IN  (/\ r.req.method \in StandardMethods
             /\ r.req.path = "/"
             /\ UserAgentOf(r.req) = BrowserAgent
             /\ Truthy(Header(r.req, "X-Forwarded-For"))
             /\ is_ip_allowed(RealIpOf[r.req], whitelist_file)
             /\ RealIpOf[r.req] \notin DOMAIN blacklist
             /\ GateIpOf[r.req] \notin DOMAIN blacklist)
              => /\ r.gate = NULL
                 /\ blacklist' = blacklist
      ]_vars

-----------------------------------------------------------------------------
(* The labeling backend.  A table is the sequence of its rows in physical  *)
(* order; a query without ORDER BY returns the rows in that order.  Row    *)
(* ids are positive (serial columns); a NULL pending_file_id is NoId.      *)
(* The taxonomy columns family_name .. korean_name are written exactly as  *)
(* order_name is and are left out.                                         *)

\* a NULL integer column
NoId == 0

\* int(s): None when Python raises ValueError
IsInt(s) ==
    LET t    == Strip(s)
        body == IF Len(t) > 0 /\ Char(t, 1) \in {"+", "-"}
                THEN SubSeq(t, 2, Len(t)) ELSE t
    IN  AllDigits(body)

int(s) ==
    LET t == Strip(s)
    IN  IF Char(t, 1) = "-" THEN 0 - DecVal(SubSeq(t, 2, Len(t)))
        ELSE IF Char(t, 1) = "+" THEN DecVal(SubSeq(t, 2, Len(t)))
        ELSE DecVal(t)

\* s without its whitespace
RECURSIVE Compact(_)
Compact(s) ==
    IF Len(s) = 0 THEN s
    ELSE IF Char(s, 1) \in Whitespace THEN Compact(SubSeq(s, 2, Len(s)))
    ELSE Char(s, 1) \o Compact(SubSeq(s, 2, Len(s)))

\* a JSON integer: digits without a leading zero, after an optional minus
JsonInt(s) ==
    LET d == IF Len(s) > 0 /\ Char(s, 1) = "-" THEN SubSeq(s, 2, Len(s)) ELSE s
    IN  AllDigits(d) /\ (Len(d) = 1 \/ Char(d, 1) # "0")

\* json.loads(s) for null, integers and flat arrays of integers; any other
\* text raises JSONDecodeError.  The value is kept as its compact text.
json_loads(s) ==
    LET t     == Strip(s)
        inner == SubSeq(t, 2, Len(t) - 1)
        items == Split(inner, ",")
    IN  IF t = "null" THEN [ok |-> TRUE, value |-> NULL]
        ELSE IF JsonInt(t) THEN [ok |-> TRUE, value |-> t]
        ELSE IF Len(t) >= 2 /\ Char(t, 1) = "[" /\ Char(t, Len(t)) = "]"
                /\ (Strip(inner) = ""
                    \/ \A k \in 1..Len(items) : JsonInt(Strip(items[k])))
        THEN [ok |-> TRUE, value |-> Compact(t)]
        ELSE [ok |-> FALSE, value |-> NULL]

\* Path(name).suffix
Suffix(name) ==
    LET dots == {i \in 2..Len(name) : Char(name, i) = "."}
    IN  IF dots = {} \/ Char(name, Len(name)) = "." THEN ""
        ELSE LET i == CHOOSE i \in dots : \A j \in dots : j <= i
             IN  SubSeq(name, i, Len(name))

\* generate_unique_filename: time stamp, uuid prefix, suffix of the original
generate_unique_filename(original_filename, t) ==
    "20250101_00000" \o ToString(t) \o "_9f1c2ab4" \o Suffix(original_filename)

\* value or None
OrNone(v) == IF Truthy(v) THEN v ELSE NULL

\* the next value of a serial id column
NextId(table) ==
    IF Len(table) = 0 THEN 1
    ELSE 1 + (CHOOSE m \in {table[k].id : k \in 1..Len(table)} :
                \A k \in 1..Len(table) : table[k].id <= m)

\* table.select().eq(column, value)
Where(table, Test(_)) == SelectSeq(table, Test)

\* table.update(changes) on the rows Test selects
UpdateWhere(table, Test(_), Change(_)) ==
    [k \in 1..Len(table) |-> IF Test(table[k]) THEN Change(table[k]) ELSE table[k]]

\* what a handler call returned: HTTP status, the success flag and the
\* data of its JSON body; input is what the call was given (for the
\* duplicate cleanup, the table its first query read)
Reply(op, input, status, success, data) ==
    [op |-> op, input |-> input, status |-> status, success |-> success, data |-> data]

MutCompleteNothing(prf, pid) == prf

\* pending_review_files.update({'status': 'completed'}).eq('id', pid)
CompletePendingFile(prf, pid) ==
    UpdateWhere(prf, LAMBDA f : f.id = pid, LAMBDA f : [f EXCEPT !.status = "completed"])

\* the request.form / request.files of a save_training_data call
SaveForm(pid, filename, order_name, bbox, image) ==
    [pending_file_id |-> pid, filename |-> filename, order_name |-> order_name,
     bbox_annotations |-> bbox, image |-> image]

\* save_training_data on behalf of the logged-in user of sess: the tables,
\* the upload folder and the response after the call
save_training_data(form, sess, li, prf, up, t) ==
    LET same(resp)  == [labeled_images |-> li, pending_review_files |-> prf,
                        uploads |-> up, resp |-> resp]
        user        == get_current_user(sess)
        bbox        == form.bbox_annotations
        parsed      == json_loads(bbox)
        bbox_bad    == Truthy(bbox) /\ ~parsed.ok
        bbox_data   == IF Truthy(bbox) THEN parsed.value ELSE NULL
    IN  IF Truthy(form.pending_file_id)
        THEN IF ~IsInt(form.pending_file_id)
             THEN same(Reply("save_training_data", form, 500, FALSE, <<>>))
             ELSE
             LET pid      == int(form.pending_file_id)
                 filename == IF form.filename = NULL THEN "unknown.jpg" ELSE form.filename
                 status   == Where(prf, LAMBDA f : f.id = pid)
                 existing == Where(li, LAMBDA r : r.pending_file_id = pid)
                 write(r) == [r EXCEPT !.pending_file_id = pid,
                                       !.filename = filename,
                                       !.order_name = OrNone(form.order_name),
                                       !.bbox_data = bbox_data,
                                       !.reviewer_name = user.name]
                 fresh    == [id |-> NextId(li), pending_file_id |-> pid,
                              filename |-> filename,
                              order_name |-> OrNone(form.order_name),
                              bbox_data |-> bbox_data, reviewer_name |-> user.name,
                              created_at |-> t]
                 written  == IF Len(existing) > 0
                             THEN UpdateWhere(li, LAMBDA r : r.id = existing[1].id, write)
                             ELSE Append(li, fresh)
                 row      == IF Len(existing) > 0 THEN write(existing[1]) ELSE fresh
             IN  IF Len(status) > 0 /\ status[1].status = "completed"
                 THEN same(Reply("save_training_data", form, 200, FALSE, <<>>))
                 ELSE IF bbox_bad
                 THEN same(Reply("save_training_data", form, 500, FALSE, <<>>))
                 ELSE [labeled_images |-> written,
                       pending_review_files |-> CompletePendingFile(prf, pid),
                       uploads |-> up,
                       resp |-> Reply("save_training_data", form, 200, TRUE, <<row>>)]
        ELSE IF form.image = NULL \/ form.image = ""
        THEN same(Reply("save_training_data", form, 400, FALSE, <<>>))
        ELSE LET filename == generate_unique_filename(form.image, t)
                 fresh    == [id |-> NextId(li), pending_file_id |-> NoId,
                              filename |-> filename,
                              order_name |-> OrNone(form.order_name),
                              bbox_data |-> bbox_data, reviewer_name |-> user.name,
                              created_at |-> t]
             IN  IF bbox_bad
                 THEN [labeled_images |-> li, pending_review_files |-> prf,
                       uploads |-> up \cup {filename},
                       resp |-> Reply("save_training_data", form, 500, FALSE, <<>>)]
                 ELSE [labeled_images |-> Append(li, fresh),
                       pending_review_files |-> prf,
                       uploads |-> up \cup {filename},
                       resp |-> Reply("save_training_data", form, 200, TRUE, <<fresh>>)]

-----------------------------------------------------------------------------
(* The pending-file queue *)

\* request.args.get('limit', 20, type=int) without a limit parameter
DefaultLimit == 20

\* the elements of a sequence
Range(seq) == {seq[k] : k \in 1..Len(seq)}

\* the sequences that list every element of S once: list(set) in some order
ListsOf(S) ==
    {q \in [1..Cardinality(S) -> S] : \A x \in S : \E k \in DOMAIN q : q[k] = x}

\* seq[:n]
Take(seq, n) == SubSeq(seq, 1, IF n < Len(seq) THEN n ELSE Len(seq))

\* order_counts.get(order, 0): labeled rows per order_name
order_counts(li, order) ==
    Cardinality({k \in 1..Len(li) : Truthy(li[k].order_name) /\ li[k].order_name = order})

MutSortByCountUnsorted(orders, li) == orders

\* priority_orders.sort(key=count): stable, ascending
RECURSIVE SortByCount(_, _)
SortByCount(orders, li) ==
    IF Len(orders) <= 1 THEN orders
    ELSE LET x      == orders[Len(orders)]
             sorted == SortByCount(SubSeq(orders, 1, Len(orders) - 1), li)
             k      == Cardinality({j \in 1..Len(sorted) :
                           order_counts(li, sorted[j]) <= order_counts(li, x)})
         IN  SubSeq(sorted, 1, k) \o <<x>> \o SubSeq(sorted, k + 1, Len(sorted))

labeled_file_ids(li) ==
    {li[k].pending_file_id : k \in {j \in 1..Len(li) : li[j].pending_file_id # NoId}}

labeled_filenames(li) ==
    {li[k].filename : k \in {j \in 1..Len(li) :
                                Truthy(li[j].filename) /\ Strip(li[j].filename) # ""}}

\* the loop over filtered_files: add until the limit, skipping files whose
\* id or stripped filename has been selected
RECURSIVE AddFiles(_, _, _)
AddFiles(acc, files, limit) ==
    IF Len(files) = 0 \/ Len(acc.files) >= limit THEN acc
    ELSE LET file     == Head(files)
             filename == Strip(file.filename)
         IN  IF file.id \in acc.ids \/ (filename # "" /\ filename \in acc.names)
             THEN AddFiles(acc, Tail(files), limit)
             ELSE AddFiles([files |-> Append(acc.files, file),
                            ids   |-> acc.ids \cup {file.id},
                            names |-> IF filename # "" THEN acc.names \cup {filename}
                                      ELSE acc.names],
                           Tail(files), limit)

\* one query of the queue (an order, or the files without an order): fetch
\* twice the remaining count, drop the labeled files, add the rest
Collect(acc, prf, order, limit, li) ==
    LET remaining == limit - Len(acc.files)
        result    == Take(SelectSeq(prf, LAMBDA f : f.status = "pending"
                                                      /\ f.order_name = order),
                          remaining * 2)
        filtered  == SelectSeq(result, LAMBDA f :
                         /\ f.id \notin labeled_file_ids(li)
                         /\ ~(Strip(f.filename) # ""
                              /\ Strip(f.filename) \in labeled_filenames(li)))
    IN  AddFiles(acc, filtered, limit)

\* the loop over priority_orders
RECURSIVE CollectOrders(_, _, _, _, _)
CollectOrders(acc, orders, prf, limit, li) ==
    IF Len(orders) = 0 \/ Len(acc.files) >= limit THEN acc
    ELSE CollectOrders(Collect(acc, prf, Head(orders), limit, li),
                       Tail(orders), prf, limit, li)

\* get_pending_files; all_orders is list(all_orders_set)
get_pending_files(limit, li, prf, all_orders) ==
    LET priority_orders == SortByCount(all_orders, li)
        start    == [files |-> <<>>, ids |-> {}, names |-> {}]
        byOrder  == CollectOrders(start, priority_orders, prf, limit, li)
        selected == IF Len(byOrder.files) < limit
                    THEN Collect(byOrder, prf, NULL, limit, li)
                    ELSE byOrder
    IN  Reply("get_pending_files", limit, 200, TRUE, selected.files)

-----------------------------------------------------------------------------
(* Duplicate cleanup *)

\* the sequences that list rows by ascending created_at
RECURSIVE Orderings(_)
Orderings(rows) ==
    IF rows = {} THEN {<<>>}
    ELSE LET least == {r \in rows : \A q \in rows : r.created_at <= q.created_at}
         IN  UNION {{<<r>> \o rest : rest \in Orderings(rows \ {r})} : r \in least}

\* select('*').order('created_at'): the rows by ascending created_at, rows
\* of equal created_at in any order
OrderedByCreatedAt(table) == Orderings(Range(table))

\* the rows of an ordered result that follow another row of the same group
LaterInGroup(ordered, Key(_), InGroup(_)) ==
    {ordered[j].id : j \in {j \in 1..Len(ordered) :
        /\ InGroup(ordered[j])
        /\ \E i \in 1..(j - 1) : InGroup(ordered[i]) /\ Key(ordered[i]) = Key(ordered[j])}}

\* delete().eq('id', id) for every id of ids
DeleteIds(table, ids) == SelectSeq(table, LAMBDA r : r.id \notin ids)

MutCleanPhase1Nothing(li, first) == li

\* clean_duplicates, step 1: first is the result of the ordered query
clean_phase1(li, first) ==
    DeleteIds(li, LaterInGroup(first, LAMBDA r : r.pending_file_id,
                                      LAMBDA r : r.pending_file_id # NoId))

\* clean_duplicates, step 2: second is the result of the repeated query
clean_phase2(li, second) ==
    DeleteIds(li, LaterInGroup(second, LAMBDA r : r.filename,
                                       LAMBDA r : Truthy(r.filename)))

-----------------------------------------------------------------------------
(* Calls of the backend handlers.  Each is the whole request: the          *)
(* decorator of the route, then the handler.                               *)

BackendRequest(method, path) == Req(LocalAddr, Plain, method, path, NULL, NoForm)

SaveTrainingData(form) ==
    /\ now < MaxTime
    /\ now' = now + 1
    /\ LET deny == login_required(BackendRequest("POST", "/api/save_training_data"),
                                  session)
           r    == save_training_data(form, session, labeled_images,
                                      pending_review_files, uploads, now)
       IN  IF deny # NoResponse
           THEN /\ reply' = Reply("save_training_data", form, deny.status, FALSE, <<>>)
                /\ UNCHANGED <<labeled_images, pending_review_files, uploads>>
           ELSE /\ labeled_images' = r.labeled_images
                /\ pending_review_files' = r.pending_review_files
                /\ uploads' = r.uploads
                /\ reply' = r.resp
    /\ UNCHANGED <<blacklist, whitelist_data, whitelist_file, session, last,
                   insect_species, demoVars, libVars>>

GetPendingFiles(limit) ==
    /\ LET deny == login_required(BackendRequest("GET", "/api/pending-files"), session)
       IN  IF deny # NoResponse
           THEN reply' = Reply("get_pending_files", limit, deny.status, FALSE, <<>>)
           ELSE \E all_orders \in ListsOf({o \in Range(insect_species) : Truthy(o)}) :
                   reply' = get_pending_files(limit, labeled_images,
                                              pending_review_files, all_orders)
    /\ UNCHANGED <<gateVars, labeled_images, pending_review_files, insect_species,
                   uploads, demoVars, libVars>>

CleanDuplicates ==
    /\ LET deny == admin_required(BackendRequest("POST", "/api/admin/duplicates/clean"),
                                  session)
       IN  IF deny # NoResponse
           THEN /\ reply' = Reply("clean_duplicates", labeled_images, deny.status,
                                  FALSE, <<>>)
                /\ UNCHANGED labeled_images
           ELSE \E first \in OrderedByCreatedAt(labeled_images) :
                  LET kept == clean_phase1(labeled_images, first)
                  IN  \E second \in OrderedByCreatedAt(kept) :
                        /\ labeled_images' = clean_phase2(kept, second)
                        /\ reply' = Reply("clean_duplicates", labeled_images, 200, TRUE,
                                          <<Len(labeled_images) - Len(labeled_images')>>)
    /\ UNCHANGED <<gateVars, pending_review_files, insect_species, uploads, demoVars, libVars>>

-----------------------------------------------------------------------------
(* Contents of the backend tables and inputs of the calls *)

OrderA == "Coleoptera"
OrderB == "Diptera"

Statuses == {"pending", "reviewing", "completed", "excluded"}

PendingRow(id, filename, status, order_name) ==
    [id |-> id, filename |-> filename, status |-> status, order_name |-> order_name,
     assigned_reviewer |-> NULL]

LabeledRow(id, pid, filename, order_name, created_at) ==
    [id |-> id, pending_file_id |-> pid, filename |-> filename,
     order_name |-> order_name, bbox_data |-> NULL, reviewer_name |-> "Kim",
     created_at |-> created_at]

\* the tables of at most n rows whose row k is Row(k, c) for a choice c of
\* Choices: ids follow the physical order
Tables(n, Choices, Row(_, _)) ==
    UNION {{[k \in 1..m |-> Row(k, c[k])] : c \in [1..m -> Choices]} : m \in 0..n}

\* the gates are not part of a backend run
GateIdle ==
    /\ blacklist = EmptyDict
    /\ whitelist_data = default_data
    /\ whitelist_file = default_data
    /\ last = NoRequest

\* ---- saving labels ----

SavePendingTables ==
    {<<PendingRow(1, "a.jpg", s1, NULL), PendingRow(2, "b.jpg", s2, OrderA)>> :
        s1 \in Statuses, s2 \in {"pending", "completed"}}

SaveLabeledTables ==
    Tables(MaxSaved, {NoId, 1, 2},
           LAMBDA k, pid : LabeledRow(k, pid, "old.jpg", OrderB, 0))

SaveForms ==
    {SaveForm(pid, "a.jpg", OrderA, bbox, NULL) :
        pid \in {"1", "2"}, bbox \in {"[1, 2]", "[1,"}}
      \cup {SaveForm("1", NULL, "", "", NULL),
            SaveForm("2", "b.jpg", "", "null", NULL),
            SaveForm("x", "a.jpg", OrderA, "", NULL),
            SaveForm(NULL, NULL, OrderA, "", NULL),
            SaveForm("", NULL, OrderA, "", ""),
            SaveForm("", NULL, OrderA, "[7]", "moth.v2.jpg"),
            SaveForm("", NULL, "", "{", "moth.v2.jpg")}

InitSave ==
    /\ GateIdle
    /\ session \in Sessions
    /\ now = 1
    /\ labeled_images \in SaveLabeledTables
    /\ pending_review_files \in SavePendingTables
    /\ insect_species = <<>>
    /\ uploads = {}
    /\ reply = NoReply
    /\ DemoIdle
    /\ LibIdle

NextSave == \E form \in SaveForms : SaveTrainingData(form)

SpecSave == InitSave /\ [][NextSave]_vars

\* ---- the pending-file queue ----

Filenames == {"a.jpg", " a.jpg", "b.jpg"}

\* pending files of one order or none, which labeled rows may exclude
QueuePendingTables ==
    Tables(MaxPending, Filenames \X {"pending", "completed"} \X {NULL, OrderA},
           LAMBDA k, c : PendingRow(k, c[1], c[2], c[3]))

QueueLabeledTables ==
    Tables(MaxLabeled, {NoId, 1} \X Filenames,
           LAMBDA k, c : LabeledRow(k, c[1], c[2], OrderA, 0))

\* pending files of both orders with file names of their own
OrderedPendingTables ==
    Tables(MaxPending, {"pending", "completed"} \X {NULL, OrderA, OrderB},
           LAMBDA k, c : PendingRow(k, "p" \o ToString(k) \o ".jpg", c[1], c[2]))

\* labeled rows that count towards the orders, among them five of OrderB
CountedLabeledTables ==
    Tables(MaxCounted, {OrderA, OrderB},
           LAMBDA k, o : LabeledRow(k, NoId, "x.jpg", o, 0))
      \cup {[k \in 1..5 |-> LabeledRow(k, NoId, "x.jpg", OrderB, 0)]}

SpeciesTables == {<<>>, <<OrderA>>, <<OrderB, OrderA, OrderB>>, <<OrderA, NULL, OrderB>>}

Limits == 1..MaxLimit \cup {DefaultLimit}

InitQueue ==
    /\ GateIdle
    /\ session \in Sessions
    /\ now = 1
    /\ \/ /\ labeled_images \in QueueLabeledTables
          /\ pending_review_files \in QueuePendingTables
          /\ insect_species = <<OrderA, OrderB>>
       \/ /\ labeled_images \in CountedLabeledTables
          /\ pending_review_files \in OrderedPendingTables
          /\ insect_species \in SpeciesTables
    /\ uploads = {}
    /\ reply = NoReply
    /\ DemoIdle
    /\ LibIdle

NextQueue == \E limit \in Limits : GetPendingFiles(limit)

SpecQueue == InitQueue /\ [][NextQueue]_vars

\* ---- duplicate cleanup ----

CleanChoices == {NoId, 1, 2} \X {"a.jpg", "b.jpg"} \X (1..MaxCreated)

\* the cleanup is asked for by an administrator
InitClean ==
    /\ GateIdle
    /\ session \in {sess \in Sessions : admin_required(BackendRequest("POST", "/"), sess)
                                          = NoResponse}
    /\ now = 1 + MaxCreated
    /\ \E c \in [1..MaxRows -> CleanChoices] :
          labeled_images = [k \in 1..MaxRows |->
                               LabeledRow(k, c[k][1], c[k][2], OrderA, c[k][3])]
    /\ pending_review_files = <<>>
    /\ insect_species = <<>>
    /\ uploads = {}
    /\ reply = NoReply
    /\ DemoIdle
    /\ LibIdle

NextClean == CleanDuplicates

SpecClean == InitClean /\ [][NextClean]_vars

-----------------------------------------------------------------------------
(* Claims about saving labels *)

\* the rows of a table that carry the pending_file_id pid
RowsOf(li, pid) == {k \in 1..Len(li) : li[k].pending_file_id = pid}

AtMostOnePerPendingFile(li) ==
    \A k \in 1..Len(li) :
        li[k].pending_file_id # NoId => Cardinality(RowsOf(li, li[k].pending_file_id)) = 1

StatusOf(prf, pid) == (CHOOSE k \in 1..Len(prf) : prf[k].id = pid)

\* reply' answers a call of save_training_data that named the pending file
\* of a table with at most one row per pending_file_id
SavedPendingFile ==
    /\ reply'.op = "save_training_data"
    /\ is_logged_in(session)
    /\ Truthy(reply'.input.pending_file_id)
    /\ IsInt(reply'.input.pending_file_id)
    /\ \E k \in 1..Len(pending_review_files) :
          pending_review_files[k].id = int(reply'.input.pending_file_id)
    /\ AtMostOnePerPendingFile(labeled_images)

\* the call was refused and changed neither table
SaveRefused ==
    /\ ~reply'.success
    /\ labeled_images' = labeled_images
    /\ pending_review_files' = pending_review_files

\* the call left exactly one row for pid, the old row overwritten where it
\* stood or a new last row, every other row and pending file as it was, and
\* the pending file completed
SaveStored(pid) ==
    LET old == RowsOf(labeled_images, pid)
        new == RowsOf(labeled_images', pid)
        k   == StatusOf(pending_review_files, pid)
    IN  /\ reply'.success
        /\ Cardinality(new) = 1
        /\ IF old # {}
           THEN /\ new = old
                /\ Len(labeled_images') = Len(labeled_images)
                /\ \A i \in new : /\ labeled_images'[i].id = labeled_images[i].id
                                  /\ labeled_images'[i].created_at = labeled_images[i].created_at
                                  /\ labeled_images'[i].filename =
                                        (IF reply'.input.filename = NULL THEN "unknown.jpg"
                                         ELSE reply'.input.filename)
           ELSE /\ new = {Len(labeled_images')}
                /\ Len(labeled_images') = Len(labeled_images) + 1
        /\ \A i \in 1..Len(labeled_images) : i \notin old => labeled_images'[i] = labeled_images[i]
        /\ Len(pending_review_files') = Len(pending_review_files)
        /\ pending_review_files'[k].status = "completed"
        /\ \A i \in 1..Len(pending_review_files) :
              i # k => pending_review_files'[i] = pending_review_files[i]

\* C4 as stated: a save_training_data call with a pending_file_id, on a
\* table with at most one row per pending_file_id, is refused without any
\* change when the pending file is completed, and otherwise leaves exactly
\* one row for that id and the pending file completed.
C4_SaveAlwaysStores ==
    [][ SavedPendingFile =>
          LET pid == int(reply'.input.pending_file_id)
          IN  IF pending_review_files[StatusOf(pending_review_files, pid)].status = "completed"
              THEN SaveRefused
              ELSE SaveStored(pid)
      ]_vars

\* the bbox_annotations of the call are empty or JSON text
BboxWellFormed == ~Truthy(reply'.input.bbox_annotations)
                     \/ json_loads(reply'.input.bbox_annotations).ok

\* C4, amended: the call is refused without any change when the pending
\* file is completed; otherwise, when bbox_annotations is empty or
\* well-formed JSON, it leaves exactly one row for that id (the old row
\* overwritten in place or a new row) and the pending file completed, and
\* when bbox_annotations is malformed it fails with status 500 and changes
\* neither table.  Sequential calls keep the table at one row per id.
C4_SaveStoresWellFormed ==
    [][ SavedPendingFile =>
          LET pid == int(reply'.input.pending_file_id)
          IN  /\ IF pending_review_files[StatusOf(pending_review_files, pid)].status = "completed"
                 THEN SaveRefused /\ reply'.status = 200
                 ELSE IF BboxWellFormed
                 THEN SaveStored(pid)
                 ELSE SaveRefused /\ reply'.status = 500
              /\ AtMostOnePerPendingFile(labeled_images')
      ]_vars

\* a save has overwritten the row that existed for its pending file, and
\* the table still has one row for it
C4_Witness ==
    /\ reply.op = "save_training_data"
    /\ reply.success
    /\ reply.input.pending_file_id = "2"
    /\ Len(reply.data) = 1
    /\ reply.data[1].created_at = 0
    /\ reply.data[1].bbox_data = "[1,2]"
    /\ reply.data[1].reviewer_name = "Admin"
    /\ Cardinality(RowsOf(labeled_images, 2)) = 1
    /\ pending_review_files[2].status = "completed"

-----------------------------------------------------------------------------
(* Claims about the pending-file queue *)

\* reply answers a call of get_pending_files that ran
QueueAnswered == reply.op = "get_pending_files" /\ reply.success

\* the positions of the returned list that hold a file of the order
ReturnedOf(order) == {i \in 1..Len(reply.data) : reply.data[i].order_name = order}

\* C5: when order a has fewer labeled images than order b, every returned
\* file of order a precedes every returned file of order b, and files of
\* order b are returned only if the files of order a returned are fewer than
\* the limit.
C5_FewestLabeledFirst ==
    QueueAnswered =>
        \A a, b \in {OrderA, OrderB} :
            order_counts(labeled_images, a) < order_counts(labeled_images, b) =>
                /\ \A i \in ReturnedOf(a), j \in ReturnedOf(b) : i < j
                /\ ReturnedOf(b) # {} => Cardinality(ReturnedOf(a)) < reply.input

\* labeled counts {OrderA: 0, OrderB: 5}, pending files of both orders:
\* a file of OrderA is returned first, then a file of OrderB
C5_Witness ==
    /\ QueueAnswered
    /\ order_counts(labeled_images, OrderA) = 0
    /\ order_counts(labeled_images, OrderB) = 5
    /\ Len(pending_review_files) >= 2
    /\ pending_review_files[1].order_name = OrderB
    /\ pending_review_files[1].status = "pending"
    /\ Len(reply.data) >= 2
    /\ reply.data[1].order_name = OrderA
    /\ reply.data[2].order_name = OrderB

\* C6 as stated: the returned list has at most limit entries, all of status
\* pending, none whose id is a pending_file_id of labeled_images, none whose
\* filename is a filename of labeled_images, and no id or filename twice.
C6_QueueExcludesLabeled ==
    (QueueAnswered /\ reply.input >= 1) =>
        LET data == reply.data
        IN  /\ Len(data) <= reply.input
            /\ \A i \in 1..Len(data) :
                  /\ data[i].status = "pending"
                  /\ \A k \in 1..Len(labeled_images) :
                        /\ labeled_images[k].pending_file_id # data[i].id
                        /\ labeled_images[k].filename # data[i].filename
            /\ \A i, j \in 1..Len(data) :
                  i # j => data[i].id # data[j].id /\ data[i].filename # data[j].filename

-----------------------------------------------------------------------------
(* Claims about the duplicate cleanup *)

\* reply' answers a cleanup that ran
Cleaned == reply'.op = "clean_duplicates" /\ reply'.success

IdsOf(table) == {table[k].id : k \in 1..Len(table)}

\* ids of the rows the cleanup deleted
Deleted == IdsOf(labeled_images) \ IdsOf(labeled_images')

\* the groups of exactly three rows that share one pending_file_id
Triples(table) ==
    {g \in {{r \in Range(table) : r.pending_file_id = pid} : pid \in {1, 2}} :
        Cardinality(g) = 3}

-----------------------------------------------------------------------------
(* The demo application (src/app.py): file names *)

ALLOWED_EXTENSIONS == {"png", "jpg", "jpeg", "gif", "webp"}

\* the position of the last "." of s, 0 when it has none
LastDot(s) ==
    LET dots == {i \in 1..Len(s) : Char(s, i) = "."}
    IN  IF dots = {} THEN 0 ELSE CHOOSE i \in dots : \A j \in dots : j <= i

\* allowed_file
allowed_file(filename) ==
    /\ LastDot(filename) > 0
    /\ Lower(SubSeq(filename, LastDot(filename) + 1, Len(filename))) \in ALLOWED_EXTENSIONS

\* detect_image_ext, given the format Pillow reads from the bytes (NULL when
\* Image.open raises)
detect_image_ext(format) ==
    IF format = NULL THEN NULL
    ELSE IF Lower(format) = "jpeg" THEN "jpg"
    ELSE IF Lower(format) \in ALLOWED_EXTENSIONS THEN Lower(format)
    ELSE NULL

\* "_".join(s.split())
RECURSIVE JoinWords(_)
JoinWords(s) ==
    LET t == Strip(s)
    IN  IF Len(t) = 0 THEN ""
        ELSE IF Len(t) > 1 /\ Char(t, 2) \in Whitespace
             THEN Char(t, 1) \o "_" \o JoinWords(SubSeq(t, 2, Len(t)))
             ELSE Char(t, 1) \o JoinWords(SubSeq(t, 2, Len(t)))

IsSafeChar(c) ==
    IsDigit(c) \/ c \in Range(UpperCase) \/ c \in Range(LowerCase) \/ c \in {"_", ".", "-"}

\* s with the characters Keep rejects removed, and with the path separator
\* turned into a blank
RECURSIVE MapChars(_, _)
MapChars(s, kind) ==
    IF Len(s) = 0 THEN s
    ELSE LET c == Char(s, 1)
             r == MapChars(SubSeq(s, 2, Len(s)), kind)
         IN  IF kind = "separators" THEN (IF c = "/" THEN " " ELSE c) \o r
             ELSE IF IsSafeChar(c) THEN c \o r ELSE r

\* s.strip("._")
RECURSIVE StripDots(_)
StripDots(s) ==
    IF Len(s) = 0 THEN s
    ELSE IF Char(s, 1) \in {".", "_"} THEN StripDots(SubSeq(s, 2, Len(s)))
    ELSE IF Char(s, Len(s)) \in {".", "_"} THEN StripDots(SubSeq(s, 1, Len(s) - 1))
    ELSE s

\* werkzeug.utils.secure_filename (ASCII names)
secure_filename(filename) ==
    StripDots(MapChars(JoinWords(MapChars(filename, "separators")), "safe"))

\* os.path.splitext of a name without directories: <<root, ext>>
splitext(p) ==
    LET i == LastDot(p)
    IN  IF i = 0 \/ \A j \in 1..(i - 1) : Char(p, j) = "."
        THEN <<p, "">>
        ELSE <<SubSeq(p, 1, i - 1), SubSeq(p, i, Len(p))>>

\* uuid.uuid4() at time t: a value never drawn before
uuid4(t) == ToString(t) \o "d0c3e7ab2f4c1d9e8a77f0a1b2c3d4e"

\* ensure_unique_filename
ensure_unique_filename(original_filename, t) ==
    LET parts == splitext(secure_filename(original_filename))
        name  == IF parts[1] = "" THEN uuid4(t) ELSE parts[1]
        ext   == IF parts[2] = "" THEN ".jpg" ELSE Lower(parts[2])
    IN  name \o "_" \o SubSeq(uuid4(t), 1, 8) \o ext

\* s.lstrip(".")
RECURSIVE LStripDot(_)
LStripDot(s) ==
    IF Len(s) > 0 /\ Char(s, 1) = "." THEN LStripDot(SubSeq(s, 2, Len(s))) ELSE s

MutRemoveNothing(dir, name) == dir

\* os.remove(path)
RemoveFile(dir, name) == dir \ {name}

-----------------------------------------------------------------------------
(* The demo application: upload, result page, reset, box update *)

\* a value that is None where the code holds a dict
NoneRec == [is_none |-> TRUE]

\* a list where None may stand as well
ListOf(items) == [items |-> items]

DemoReply(op, input, status, success, stages) ==
    [op |-> op, input |-> input, status |-> status, success |-> success,
     stages |-> stages]

\* the guard that takes no request for a repeated one
MutRepeatedNever(form, sess) == FALSE

\* request_id and session.get('last_request_id') == request_id
RepeatedRequest(form, sess) ==
    /\ Truthy(form.request_id)
    /\ "last_request_id" \in DOMAIN sess
    /\ sess["last_request_id"] = form.request_id

\* index() for a POST: form holds request_id and the photo (its file name,
\* NULL when the field is missing, and the format of its bytes); detected is
\* what detector.detect does
index_post(form, sess, dir, res, detected, t) ==
    LET out(se, d, r, what) ==
            [session |-> se, upload_dir |-> d, results_dir |-> r,
             resp |-> DemoReply("upload", form, 302, what = "stored", {what})]
        marked   == Put(sess, "last_request_id", form.request_id)
        filename == ensure_unique_filename(form.photo, t)
        real_ext == detect_image_ext(form.format)
        current  == Lower(LStripDot(splitext(filename)[2]))
        stored   == IF current # real_ext
                    THEN splitext(filename)[1] \o "." \o real_ext
                    ELSE filename
        kept     == IF current # real_ext
                    THEN RemoveFile(dir \cup {filename}, filename) \cup {stored}
                    ELSE dir \cup {filename}
        result   == "detected_" \o stored
    IN  IF RepeatedRequest(form, sess)
        THEN out(sess, dir, res, "repeated")
        ELSE IF form.photo = NULL THEN out(marked, dir, res, "no file")
        ELSE IF form.photo = "" THEN out(marked, dir, res, "no file name")
        ELSE IF ~allowed_file(form.photo) THEN out(marked, dir, res, "bad extension")
        ELSE IF real_ext = NULL
        THEN out(marked, RemoveFile(dir \cup {filename}, filename), res, "not an image")
        ELSE IF detected.raised
        THEN out(Put(marked, "last_detection", NoneRec), kept, res, "stored")
        ELSE out(Put(marked, "last_detection",
                     [original_image |-> stored, detected_image |-> result,
                      count |-> Len(detected.detections),
                      detections |-> detected.detections,
                      classifications |-> NoneRec, risk_assessment |-> NoneRec,
                      species_info |-> NoneRec, detailed_info |-> NoneRec]),
                 kept, res \cup {result}, "stored")

\* index() for a GET
index_get(show_result, sess) ==
    IF show_result = "true" THEN sess ELSE Del(sess, "last_detection")

\* reset_session
reset_session(sess) == Del(sess, "last_detection")

\* update_bboxes
update_bboxes(bboxes, sess) ==
    IF "last_detection" \in DOMAIN sess
    THEN IF sess["last_detection"] = NoneRec
         THEN [session |-> sess, status |-> 400]
         ELSE [session |-> Put(sess, "last_detection",
                               [sess["last_detection"] EXCEPT
                                    !.detections = bboxes, !.count = Len(bboxes)]),
               status |-> 200]
    ELSE [session |-> sess, status |-> 200]

\* add_manual_bbox that leaves the stored count as it was
MutAddManualKeepsCount(bbox, sess) ==
    IF "last_detection" \notin DOMAIN sess THEN [session |-> sess, status |-> 400]
    ELSE IF sess["last_detection"] = NoneRec THEN [session |-> sess, status |-> 500]
    ELSE [session |-> Put(sess, "last_detection",
                          [sess["last_detection"] EXCEPT
                               !.detections = Append(@, [bbox |-> bbox, confidence |-> 100,
                                                         class |-> "manual"])]),
          status |-> 200]

\* add_manual_bbox: confidence is kept in hundredths, 100 is 1.0
add_manual_bbox(bbox, sess) ==
    IF "last_detection" \notin DOMAIN sess THEN [session |-> sess, status |-> 400]
    ELSE IF sess["last_detection"] = NoneRec THEN [session |-> sess, status |-> 500]
    ELSE LET new_detection == [bbox |-> bbox, confidence |-> 100, class |-> "manual"]
             detections == Append(sess["last_detection"].detections, new_detection)
         IN  [session |-> Put(sess, "last_detection",
                              [sess["last_detection"] EXCEPT
                                   !.detections = detections, !.count = Len(detections)]),
              status |-> 200]

-----------------------------------------------------------------------------
(* The demo application: classify.  The four stages are models outside the *)
(* handler; what each of them does is an input of the call.  Confidence    *)
(* scores and candidate lists are left out of the results, and the crop    *)
(* images the classifiers write are not kept.                              *)

\* dict.get(key)
Get(d, key) == IF key \in DOMAIN d THEN d[key] ELSE NULL

\* not v, for a list or None
Falsy(v) == v = NoneRec \/ v.items = <<>>

\* [None] * n
\* a list of n empty values that are not None
MutNonesAreValues(n) == ListOf([k \in 1..n |-> [is_none |-> FALSE]])

Nones(n) == ListOf([k \in 1..n |-> NoneRec])

\* what classifier.classify_detections returns for one box
OrderResult ==
    [detection_idx |-> 0,
     classification |-> <<[class_name |-> "Hymenoptera"]>>]

\* what hierarchical_classifier.classify_detections returns for one box
\* when the hierarchy is resolved down to the level depth
HierResult(depth) ==
    LET family  == IF depth \in {"family", "genus", "species"} THEN "Vespidae" ELSE ""
        genus   == IF depth \in {"genus", "species"} THEN "Vespa" ELSE ""
        species == IF depth = "species" THEN "Vespa_mandarinia" ELSE ""
        level(name, l) == IF name = "" THEN <<>> ELSE <<[class_name |-> name, level |-> l]>>
        scored  == {l \in {"family", "genus", "species"} :
                       /\ l = "family" => family # ""
                       /\ l = "genus" => genus # ""
                       /\ l = "species" => species # ""}
        ranks   == [order |-> "Hymenoptera", family |-> family,
                    genus |-> genus, species |-> species,
                    confidence_scores |-> [l \in scored |-> 90]]
    IN  [detection_idx |-> 0,
         hierarchical_result |->
             IF species = "" THEN ranks
             ELSE ranks @@ [species_candidates |->
                               <<[name |-> species, confidence |-> 90],
                                 [name |-> "Vespa_crabro", confidence |-> 8]>>],
         classification |-> level("Hymenoptera", "order") \o level(family, "family")
                              \o level(genus, "genus") \o level(species, "species")]

\* the first truthy of species, genus, family, order
FromHierarchy(h) ==
    IF Truthy(h.species) THEN h.species
    ELSE IF Truthy(h.genus) THEN h.genus
    ELSE IF Truthy(h.family) THEN h.family
    ELSE IF Truthy(h.order) THEN h.order
    ELSE NULL

\* the loop over reversed(result['classification']): the class_name of the
\* last entry whose level is one of the four
RECURSIVE FromClassification(_)
FromClassification(list) ==
    IF Len(list) = 0 THEN NULL
    ELSE LET cls == list[Len(list)]
         IN  IF Get(cls, "level") \in {"species", "genus", "family", "order"}
                /\ Truthy(Get(cls, "class_name"))
             THEN cls.class_name
             ELSE FromClassification(SubSeq(list, 1, Len(list) - 1))

\* species_name of the risk stage
risk_species_name(result) ==
    IF "hierarchical_result" \in DOMAIN result
    THEN FromHierarchy(result.hierarchical_result)
    ELSE IF "classification" \in DOMAIN result /\ result.classification # <<>>
    THEN FromClassification(result.classification)
    ELSE NULL

\* species_name of the info stage
info_species_name(result) ==
    LET first == IF "hierarchical_result" \in DOMAIN result
                 THEN FromHierarchy(result.hierarchical_result) ELSE NULL
    IN  IF ~Truthy(first) /\ "classification" \in DOMAIN result
           /\ result.classification # <<>>
        THEN FromClassification(result.classification)
        ELSE first

\* the marker of a candidate entry (" (" and the Korean word for candidate)
CandidateMarker == " (candidate"

\* species_name.split(marker)[0].strip()
clean_name(species_name) ==
    LET at == {i \in 1..(Len(species_name) - Len(CandidateMarker) + 1) :
                 SubSeq(species_name, i, i + Len(CandidateMarker) - 1) = CandidateMarker}
    IN  IF at = {} THEN Strip(species_name)
        ELSE Strip(SubSeq(species_name, 1, (CHOOSE i \in at : \A j \in at : i <= j) - 1))

\* s.replace('_', ' ')
RECURSIVE Spaced(_)
Spaced(s) ==
    IF Len(s) = 0 THEN s
    ELSE (IF Char(s, 1) = "_" THEN " " ELSE Char(s, 1)) \o Spaced(SubSeq(s, 2, Len(s)))

\* RiskAssessor.assess_risk(name) when the risk database knows the name:
\* the entry is named by its Korean name and carries no threat_level
RiskFound(name) ==
    [species_name |-> "jangsumalbeol", scientific_name |-> Spaced(name),
     risk_level |-> "high", risk_level_color |-> "#F44336"]

\* one entry of risk_assessment; found tells whether assess_risk knows the name
RiskEntry(result, found) ==
    LET name == risk_species_name(result)
    IN  IF ~Truthy(name) THEN NoneRec
        ELSE IF found THEN RiskFound(clean_name(name))
        ELSE [species_name |-> clean_name(name), threat_level |-> "unclassified",
              risk_level_color |-> "#9E9E9E"]

\* provider.get_info(name) when the info database knows the name
InfoFound(name) ==
    [species_name |-> "jangsumalbeol", scientific_name |-> name,
     korean_name |-> "jangsumalbeol",
     risk_assessment |-> [threat_level |-> "danger", risk_category |-> "sting"]]

\* one entry of species_info; found tells whether get_info knows the name
InfoEntry(result, found) ==
    LET name == info_species_name(result)
    IN  IF ~Truthy(name) THEN NoneRec
        ELSE IF found THEN InfoFound(Spaced(clean_name(name)))
        ELSE [species_name |-> Spaced(clean_name(name)),
              description |-> "no detailed information yet"]

\* the four stages for one selected box
RunStages(stage) ==
    IF stage.order = "raise"
    THEN [classification_results |-> NoneRec, risk_assessment |-> NoneRec,
          species_info |-> NoneRec, ran |-> {"order"}]
    ELSE LET order_results == IF stage.order = "none" THEN <<>> ELSE <<OrderResult>>
             results == IF stage.hier = "raise" \/ stage.order = "none"
                        THEN order_results
                        ELSE <<HierResult(stage.hier)>>
         IN  [classification_results |-> ListOf(results),
              risk_assessment |->
                  IF stage.risk = "raise" THEN NoneRec
                  ELSE ListOf([k \in 1..Len(results) |->
                                  RiskEntry(results[k], stage.risk = "found")]),
              species_info |->
                  IF stage.info = "raise" THEN NoneRec
                  ELSE ListOf([k \in 1..Len(results) |->
                                  InfoEntry(results[k], stage.info = "found")]),
              ran |-> {"order", "hier", "risk", "info"}]

\* no stage has run
NoStages ==
    [classification_results |-> NoneRec, risk_assessment |-> NoneRec,
     species_info |-> NoneRec, ran |-> {}]

\* a or b, for two strings or None
OrElse(a, b) == IF Truthy(a) THEN a ELSE b

\* ClassificationStorage.save_classification
save_classification(storage, filename, classification_data, t) ==
    Put(storage, filename,
        Put(Put(classification_data, "timestamp", t), "filename", filename))

\* the risk fields classify copies from an info record into the stored one
WithInfoRisk(data, info) ==
    IF info # NoneRec /\ "risk_assessment" \in DOMAIN info
    THEN Put(Put(Put(data, "threat_level", OrElse(Get(info.risk_assessment, "threat_level"), "")),
                 "risk_category", OrElse(Get(info.risk_assessment, "risk_category"), "")),
             "risk_assessment_from_species_info", info.risk_assessment)
    ELSE data

\* info.get('korean_name') or info.get('species_name', '')
NameOf(info) == OrElse(Get(info, "korean_name"), OrElse(Get(info, "species_name"), ""))

\* the record classify builds for the storage from the results of the stages
classification_data(r, stage, original_image) ==
    LET hier_result == r.classification_results.items[1].hierarchical_result
        base == [order |-> hier_result.order, family |-> hier_result.family,
                 genus |-> hier_result.genus, species |-> hier_result.species,
                 confidence_scores |-> IF "confidence_scores" \in DOMAIN hier_result
                                       THEN hier_result.confidence_scores ELSE EmptyDict,
                 species_candidates |-> IF "species_candidates" \in DOMAIN hier_result
                                        THEN hier_result.species_candidates ELSE <<>>]
        info == IF ~Falsy(r.species_info) THEN r.species_info.items[1] ELSE NoneRec
        name1 == IF info # NoneRec THEN NameOf(info) ELSE NULL
        again == IF ~Truthy(name1) /\ Truthy(base.species) /\ stage.info = "found"
                 THEN InfoFound(Spaced(base.species)) ELSE NoneRec
        name2 == IF again # NoneRec THEN NameOf(again) ELSE name1
        korean_name == IF Truthy(name2) THEN name2
                       ELSE IF Truthy(base.family) THEN base.family
                       ELSE IF Truthy(base.genus) THEN base.genus
                       ELSE IF Truthy(base.order) THEN base.order
                       ELSE NULL
        informed == WithInfoRisk(WithInfoRisk(base, info), again)
        named == IF Truthy(korean_name) THEN Put(informed, "korean_name", korean_name)
                 ELSE informed
        risk_data == IF ~Falsy(r.risk_assessment) THEN r.risk_assessment.items[1]
                     ELSE NoneRec
        threat_level == IF Get(risk_data, "threat_level") = "unknown"
                        THEN "unclassified" ELSE OrElse(Get(risk_data, "threat_level"), "")
        risked == IF risk_data = NoneRec THEN named
                  ELSE IF Truthy(Get(named, "threat_level"))
                  THEN Put(named, "risk_assessment", risk_data)
                  ELSE Put(Put(Put(named, "risk_assessment", risk_data),
                               "threat_level", threat_level),
                           "risk_level_color", OrElse(Get(risk_data, "risk_level_color"), ""))
    IN  Put(risked, "filename", original_image)

\* classify: body holds bboxes and selected_index (an empty list and 0 when
\* the request carries none); stage says what each of the four stages does
\* and is kept with the body as the input of the reply
classify(body, sess, dir, storage, stage, t) ==
    LET out(se, st, status, success, ran) ==
            [session |-> se, classification_storage |-> st,
             resp |-> DemoReply("classify",
                                [bboxes |-> body.bboxes,
                                 selected_index |-> body.selected_index,
                                 stage |-> stage],
                                status, success, ran)]
        has    == "last_detection" \in DOMAIN sess
        stored == sess["last_detection"]
        bboxes == IF body.bboxes = <<>> /\ has /\ stored.detections # <<>>
                  THEN stored.detections ELSE body.bboxes
        total  == Len(bboxes)
        r      == IF total > 0 /\ body.selected_index < total
                  THEN RunStages(stage) ELSE NoStages
        filled(list) == IF Falsy(list) THEN Nones(total) ELSE list
        selected_index == IF body.selected_index >= total THEN 0 ELSE body.selected_index
        IndexError(list, results) ==
            ~Falsy(results) /\ selected_index + 1 > Len(filled(list).items)
        assigned(list, results) ==
            IF Falsy(results) THEN filled(list)
            ELSE ListOf([filled(list).items EXCEPT ![selected_index + 1] = results.items[1]])
        detection ==
            [stored EXCEPT
                !.detections = bboxes,
                !.count = total,
                !.classifications = assigned(stored.classifications, r.classification_results),
                !.risk_assessment = assigned(stored.risk_assessment, r.risk_assessment),
                !.detailed_info = assigned(stored.detailed_info, r.species_info)]
        parts == splitext(stored.original_image)
        indexed_filename ==
            parts[1] \o "_insect" \o ToString(selected_index) \o parts[2]
        saved == IF ~Falsy(r.classification_results)
                    /\ "hierarchical_result" \in DOMAIN r.classification_results.items[1]
                 THEN save_classification(storage, indexed_filename,
                          classification_data(r, stage, stored.original_image), t)
                 ELSE storage
    IN  IF ~has THEN out(sess, storage, 400, FALSE, {})
        ELSE IF stored = NoneRec THEN out(sess, storage, 500, FALSE, {})
        ELSE IF stored.original_image \notin dir THEN out(sess, storage, 400, FALSE, {})
        ELSE IF \/ IndexError(stored.classifications, r.classification_results)
                \/ IndexError(stored.risk_assessment, r.risk_assessment)
                \/ IndexError(stored.detailed_info, r.species_info)
        THEN out(sess, storage, 500, FALSE, r.ran)
        ELSE out(Put(sess, "last_detection", detection), saved, 200, TRUE, r.ran)

-----------------------------------------------------------------------------
(* The demo application: one action per route *)

\* what no demo handler touches
demoRest == <<blacklist, whitelist_data, whitelist_file, session, last, dbVars, libVars>>

\* POST /
Upload(form, detected) ==
    /\ now < MaxTime
    /\ LET r == index_post(form, demo_session, upload_dir, results_dir, detected, now)
       IN  /\ demo_session' = r.session
           /\ upload_dir' = r.upload_dir
           /\ results_dir' = r.results_dir
           /\ demo_reply' = r.resp
    /\ now' = now + 1
    /\ UNCHANGED <<classification_storage, demoRest>>

\* GET /
IndexGet(show_result) ==
    /\ demo_session' = index_get(show_result, demo_session)
    /\ demo_reply' = DemoReply("index", show_result, 200, TRUE, {})
    /\ UNCHANGED <<upload_dir, results_dir, classification_storage, now, demoRest>>

\* /reset
Reset ==
    /\ demo_session' = reset_session(demo_session)
    /\ demo_reply' = DemoReply("reset", NULL, 302, TRUE, {})
    /\ UNCHANGED <<upload_dir, results_dir, classification_storage, now, demoRest>>

\* POST /update_bboxes
UpdateBboxes(bboxes) ==
    /\ LET r == update_bboxes(bboxes, demo_session)
       IN  /\ demo_session' = r.session
           /\ demo_reply' = DemoReply("update_bboxes", bboxes, r.status, r.status = 200, {})
    /\ UNCHANGED <<upload_dir, results_dir, classification_storage, now, demoRest>>

\* POST /add_manual_bbox
AddManualBbox(bbox) ==
    /\ "last_detection" \in DOMAIN demo_session /\ demo_session["last_detection"] # NoneRec
          => Len(demo_session["last_detection"].detections) < MaxBoxes
    /\ LET r == add_manual_bbox(bbox, demo_session)
       IN  /\ demo_session' = r.session
           /\ demo_reply' = DemoReply("add_manual_bbox", bbox, r.status, r.status = 200, {})
    /\ UNCHANGED <<upload_dir, results_dir, classification_storage, now, demoRest>>

\* POST /classify
Classify(body, stage) ==
    /\ now < MaxTime
    /\ LET r == classify(body, demo_session, upload_dir, classification_storage, stage, now)
       IN  /\ demo_session' = r.session
           /\ classification_storage' = r.classification_storage
           /\ demo_reply' = r.resp
    /\ now' = now + 1
    /\ UNCHANGED <<upload_dir, results_dir, demoRest>>

\* a list with None appended until it holds the position, the position set
SetAt(list, index, value) ==
    LET items == IF Falsy(list) THEN <<>> ELSE list.items
        long  == [k \in 1..(IF Len(items) > index THEN Len(items) ELSE index + 1) |->
                     IF k <= Len(items) THEN items[k] ELSE NoneRec]
    IN  ListOf([long EXCEPT ![index + 1] = value])

\* select_candidate: found tells whether the risk knowledge base and the
\* information provider know the species
select_candidate(body, sess, storage, found, t) ==
    LET out(se, st, status) ==
            [session |-> se, classification_storage |-> st,
             resp |-> DemoReply("select_candidate",
                                [insect_index |-> body.insect_index,
                                 species_name |-> body.species_name,
                                 found |-> found],
                                status, status = 200, {})]
        stored == sess["last_detection"]
        insect_index == body.insect_index
        species_name == body.species_name
        chosen(result) ==
            IF result # NoneRec /\ "hierarchical_result" \in DOMAIN result
            THEN [result EXCEPT !.hierarchical_result =
                     Put(Put(@, "species", species_name),
                         "selected_species", species_name)]
            ELSE result
        classifications ==
            IF ~Falsy(stored.classifications)
               /\ insect_index < Len(stored.classifications.items)
            THEN ListOf([stored.classifications.items EXCEPT
                            ![insect_index + 1] = chosen(@)])
            ELSE stored.classifications
        risk_result ==
            IF found.risk THEN RiskFound(species_name)
            ELSE [species_name |-> species_name, threat_level |-> "unclassified",
                  risk_level_color |-> "#9E9E9E",
                  description |-> "no risk information yet"]
        clean_species_name == Spaced(species_name)
        info_result ==
            IF found.info THEN InfoFound(clean_species_name)
            ELSE [species_name |-> clean_species_name,
                  description |-> "no detailed information yet"]
        detection ==
            [stored EXCEPT
                !.classifications = classifications,
                !.risk_assessment = SetAt(stored.risk_assessment, insect_index, risk_result),
                !.detailed_info = SetAt(stored.detailed_info, insect_index, info_result)]
        original_image == stored.original_image
        existing_data == IF original_image \in DOMAIN storage
                            /\ DOMAIN storage[original_image] # {}
                         THEN storage[original_image] ELSE EmptyDict
        korean_name == OrElse(Get(info_result, "korean_name"),
                              OrElse(Get(info_result, "species_name"), clean_species_name))
        informed == IF "risk_assessment" \in DOMAIN info_result
                    THEN Put(Put(existing_data, "threat_level",
                                 OrElse(Get(info_result.risk_assessment, "threat_level"), "")),
                             "risk_category",
                             OrElse(Get(info_result.risk_assessment, "risk_category"), ""))
                    ELSE existing_data
        level == OrElse(Get(risk_result, "threat_level"),
                        OrElse(Get(risk_result, "risk_level"), ""))
        threat_level == IF level = "unknown" THEN "unclassified" ELSE level
        updated ==
            Put(Put(Put(Put(Put(Put(informed, "species", clean_species_name),
                                "korean_name", korean_name),
                            "risk_assessment", risk_result),
                        "threat_level", threat_level),
                    "risk_level_color", OrElse(Get(risk_result, "risk_level_color"), "")),
                "filename", original_image)
        parts == splitext(original_image)
        indexed_filename == parts[1] \o "_insect" \o ToString(insect_index) \o parts[2]
        saved == IF Truthy(original_image)
                 THEN save_classification(storage, indexed_filename, updated, t)
                 ELSE storage
    IN  IF "last_detection" \notin DOMAIN sess THEN out(sess, storage, 400)
        ELSE IF stored = NoneRec THEN out(sess, storage, 500)
        ELSE out(Put(sess, "last_detection", detection), saved, 200)

\* POST /select_candidate
SelectCandidate(body, found) ==
    /\ now < MaxTime
    /\ LET r == select_candidate(body, demo_session, classification_storage, found, now)
       IN  /\ demo_session' = r.session
           /\ classification_storage' = r.classification_storage
           /\ demo_reply' = r.resp
    /\ now' = now + 1
    /\ UNCHANGED <<upload_dir, results_dir, demoRest>>

\* two bounding boxes the detector finds, confidence in hundredths
BoxA == [bbox |-> <<10, 10, 50, 50>>, confidence |-> 91, class |-> "insect"]

BoxB == [bbox |-> <<60, 20, 90, 70>>, confidence |-> 64, class |-> "insect"]

\* the box a user draws
ManualBoxes == {<<5, 5, 20, 20>>}

BoxLists == {<<>>, <<BoxA>>, <<BoxA, BoxB>>}

\* the uploads a browser sends: without the field, without a file name, with
\* a name that is not allowed, with bytes that are no image or an image of a
\* format that is not allowed, and images
UploadForms ==
    {[request_id |-> id, photo |-> f[1], format |-> f[2]] :
        id \in {"", "r1", "r2"},
        f \in {<<NULL, NULL>>, <<"", NULL>>, <<"notes.txt", NULL>>,
               <<"wasp.png", NULL>>, <<"wasp.png", "BMP">>,
               <<"wasp.png", "PNG">>, <<"wasp.jpg", "PNG">>}}

\* what the detector does with an image
Detections ==
    {[raised |-> TRUE, detections |-> <<>>]}
        \cup {[raised |-> FALSE, detections |-> b] : b \in BoxLists}

MaxIndex == 1

ClassifyBodies == {[bboxes |-> b, selected_index |-> i] : b \in BoxLists, i \in 0..MaxIndex}

\* what the four stages do
StageOutcomes ==
    {[order |-> "raise", hier |-> "species", risk |-> "found", info |-> "found"],
     [order |-> "none", hier |-> "species", risk |-> "found", info |-> "found"],
     [order |-> "ok", hier |-> "raise", risk |-> "found", info |-> "found"],
     [order |-> "ok", hier |-> "order", risk |-> "unknown", info |-> "unknown"],
     [order |-> "ok", hier |-> "species", risk |-> "raise", info |-> "raise"],
     [order |-> "ok", hier |-> "species", risk |-> "found", info |-> "found"]}

\* the candidates a user picks, and what is known of them
CandidateBodies ==
    {[insect_index |-> i, species_name |-> "Vespa_crabro"] : i \in 0..MaxIndex}

CandidateOutcomes == {[risk |-> TRUE, info |-> TRUE], [risk |-> FALSE, info |-> FALSE]}

InitDemo ==
    /\ GateIdle
    /\ session = EmptyDict
    /\ now = 1
    /\ DbIdle
    /\ DemoIdle
    /\ LibIdle

NextDemo ==
    \/ \E form \in UploadForms, detected \in Detections : Upload(form, detected)
    \/ \E show_result \in {NULL, "true"} : IndexGet(show_result)
    \/ Reset
    \/ \E bboxes \in BoxLists : UpdateBboxes(bboxes)
    \/ \E bbox \in ManualBoxes : AddManualBbox(bbox)
    \/ \E body \in ClassifyBodies, stage \in StageOutcomes : Classify(body, stage)
    \/ \E body \in CandidateBodies, found \in CandidateOutcomes :
          SelectCandidate(body, found)

SpecDemo == InitDemo /\ [][NextDemo]_vars

-----------------------------------------------------------------------------
(* Properties of the demo application *)

\* the step is an upload
UploadStep == demo_reply'.op = "upload" /\ now' = now + 1

\* the step is a classify call
ClassifyStep == demo_reply'.op = "classify" /\ now' = now + 1

\* the upload fails validation: the field is missing or empty, the extension
\* is not allowed, or the bytes are no image of an allowed format
FailsValidation(form) ==
    \/ form.photo = NULL
    \/ form.photo = ""
    \/ LastDot(form.photo) = 0
    \/ Lower(SubSeq(form.photo, LastDot(form.photo) + 1, Len(form.photo)))
          \notin {"png", "jpg", "jpeg", "gif", "webp"}
    \/ form.format = NULL
    \/ Lower(form.format) \notin {"png", "jpeg", "gif", "webp"}

\* the detection session is the same before and after the step
SameDetection ==
    /\ ("last_detection" \in DOMAIN demo_session') = ("last_detection" \in DOMAIN demo_session)
    /\ "last_detection" \in DOMAIN demo_session
          => demo_session'["last_detection"] = demo_session["last_detection"]

\* C9: an upload that fails validation leaves the upload directory with
\* exactly the files it held before, and neither creates a detection session
\* nor changes the stored one.
C9_FailedUploadChangesNothing ==
    [][UploadStep /\ FailsValidation(demo_reply'.input)
          => /\ upload_dir' = upload_dir
             /\ SameDetection
             /\ ~demo_reply'.success]_vars

\* an upload of bytes that are no image was refused while the directory held
\* a file and the session held a detection
C9_Witness ==
    /\ demo_reply.op = "upload"
    /\ demo_reply.input.photo = "wasp.png"
    /\ demo_reply.input.format = NULL
    /\ demo_reply.stages = {"not an image"}
    /\ upload_dir # {}
    /\ "last_detection" \in DOMAIN demo_session
    /\ demo_session["last_detection"] # NoneRec

\* C10: classify answers 400, runs no stage and changes neither the session
\* nor the classification storage whenever there is no stored detection
\* session, or the stored session has no detections and the request brings
\* no boxes.
C10_ClassifyNeedsDetections ==
    [][ClassifyStep
          /\ \/ "last_detection" \notin DOMAIN demo_session
             \/ /\ demo_session["last_detection"] # NoneRec
                /\ demo_session["last_detection"].detections = <<>>
                /\ demo_reply'.input.bboxes = <<>>
          => /\ demo_reply'.status = 400
             /\ demo_reply'.stages = {}
             /\ demo_session' = demo_session
             /\ classification_storage' = classification_storage]_vars

\* the detection session of the demo is a dict (not missing, not None)
HasDetection(sess) ==
    "last_detection" \in DOMAIN sess /\ sess["last_detection"] # NoneRec

\* the boxes a classify call works on
BoxesOf(sess, input) ==
    IF input.bboxes = <<>> THEN sess["last_detection"].detections ELSE input.bboxes

\* C11: with a detection session of at least one box and the original
\* image in place, classify answers with the success envelope for every
\* selected index inside the box list and every outcome of the stages,
\* whatever classify, update-bboxes and add-manual-box requests came before.
C11_ClassifyAlwaysSucceeds ==
    [][ClassifyStep
          /\ HasDetection(demo_session)
          /\ demo_session["last_detection"].detections # <<>>
          /\ demo_session["last_detection"].original_image \in upload_dir
          /\ demo_reply'.input.selected_index
                < Len(BoxesOf(demo_session, demo_reply'.input))
          => demo_reply'.status = 200 /\ demo_reply'.success]_vars

\* the classify call of the step produced a hierarchical result
ProducedHierarchical ==
    /\ ClassifyStep
    /\ demo_reply'.success
    /\ HasDetection(demo_session)
    /\ demo_reply'.input.selected_index < Len(BoxesOf(demo_session, demo_reply'.input))
    /\ demo_reply'.input.stage.order = "ok"
    /\ demo_reply'.input.stage.hier # "raise"

\* the key <base>_insect<i><ext> of the step's classify call
IndexedKey ==
    LET parts == splitext(demo_session["last_detection"].original_image)
    IN  parts[1] \o "_insect" \o ToString(demo_reply'.input.selected_index) \o parts[2]

\* C12: after a classify call for index i on the image <base><ext> that
\* produced a hierarchical result, the storage holds a record under
\* <base>_insect<i><ext> whose filename field is <base><ext>.
C12_StoredUnderIndexedKey ==
    [][ProducedHierarchical
          => /\ IndexedKey \in DOMAIN classification_storage'
             /\ classification_storage'[IndexedKey].filename
                   = demo_session["last_detection"].original_image]_vars

\* C13: on a session of N boxes add-manual-box appends one entry with
\* confidence 1.0 and class manual, leaves the first N entries as they were
\* and stores the count N+1; after every update-bboxes and add-manual-box
\* request the stored count is the length of the detection list.
C13_ManualBoxAppended ==
    [][/\ demo_reply'.op = "add_manual_bbox" /\ HasDetection(demo_session)
          => LET old == demo_session["last_detection"]
                 new == demo_session'["last_detection"]
             IN  /\ demo_reply'.status = 200
                 /\ HasDetection(demo_session')
                 /\ Len(new.detections) = Len(old.detections) + 1
                 /\ SubSeq(new.detections, 1, Len(old.detections)) = old.detections
                 /\ new.detections[Len(new.detections)]
                       = [bbox |-> demo_reply'.input, confidence |-> 100, class |-> "manual"]
                 /\ new.count = Len(old.detections) + 1
       /\ demo_reply'.op \in {"add_manual_bbox", "update_bboxes"} /\ HasDetection(demo_session')
          => demo_session'["last_detection"].count
                = Len(demo_session'["last_detection"].detections)]_vars

\* a manual box was added to a session of two detected boxes
C13_Witness ==
    /\ demo_reply.op = "add_manual_bbox"
    /\ demo_reply.status = 200
    /\ HasDetection(demo_session)
    /\ demo_session["last_detection"].count = 3
    /\ SubSeq(demo_session["last_detection"].detections, 1, 2) = <<BoxA, BoxB>>
    /\ demo_session["last_detection"].detections[3].class = "manual"

\* a select_candidate request was answered with success
SelectStep == demo_reply'.op = "select_candidate" /\ now' = now + 1 /\ demo_reply'.success

\* the key of the record of the selected insect
CandidateKey ==
    LET parts == splitext(demo_session["last_detection"].original_image)
    IN  parts[1] \o "_insect" \o ToString(demo_reply'.input.insect_index) \o parts[2]

\* C24: when classify has stored a record for detection i, a select_candidate
\* request for the same i and a new species name rewrites the record under
\* the same key with the new species, while the order, family, genus,
\* confidence_scores and species_candidates of the record stay as classify
\* saved them.
C24_SelectKeepsRanks ==
    [][(SelectStep /\ CandidateKey \in DOMAIN classification_storage)
          => LET before == classification_storage[CandidateKey]
                 after  == classification_storage'[CandidateKey]
             IN  /\ after["species"] = Spaced(demo_reply'.input.species_name)
                 /\ \A f \in {"order", "family", "genus", "confidence_scores",
                              "species_candidates"} :
                        /\ f \in DOMAIN after
                        /\ after[f] = before[f]
       ]_vars

\* the upload of the step was rejected for a missing or empty file or for an
\* extension that is not allowed
RejectedUpload ==
    /\ UploadStep
    /\ demo_reply'.stages \cap {"no file", "no file name", "bad extension"} # {}

\* C26: an upload POST rejected for a missing or empty file or a disallowed
\* extension changes no session state, the last-seen request token included,
\* so that a following valid upload with the same token is processed.
C26_RejectedUploadKeepsSession ==
    [][RejectedUpload => demo_session' = demo_session]_vars

\* what a list of the session holds at position k, None where the list is
\* unset or shorter
ListAt(list, k) ==
    IF Falsy(list) \/ k > Len(list.items) THEN NoneRec ELSE list.items[k]

ResultLists == {"classifications", "risk_assessment", "detailed_info"}

\* C27: a classify request for selected index i changes the classification,
\* risk-assessment and detailed-info lists of the session at position i
\* only: every other position holds afterwards what it held before, and a
\* position never classified stays unset.
C27_OnlySelectedPosition ==
    [][(ClassifyStep /\ HasDetection(demo_session))
          => LET before == demo_session["last_detection"]
                 after  == demo_session'["last_detection"]
                 i      == demo_reply'.input.selected_index
             IN  \A f \in ResultLists, k \in 1..(MaxBoxes + 1) :
                    k # i + 1 => ListAt(after[f], k) = ListAt(before[f], k)
       ]_vars

\* classify for index 1 was answered with success, position 1 holds its
\* results, position 0 is unset in the risk list and holds the result of an
\* earlier classify in the classification list
C27_Witness ==
    /\ demo_reply.op = "classify" /\ demo_reply.success
    /\ demo_reply.input.selected_index = 1
    /\ HasDetection(demo_session)
    /\ LET d == demo_session["last_detection"]
       IN  /\ ListAt(d.classifications, 1) # NoneRec
           /\ ListAt(d.classifications, 2) # NoneRec
           /\ ListAt(d.risk_assessment, 1) = NoneRec
           /\ ListAt(d.risk_assessment, 2) # NoneRec

\* the token of the upload of the step is not empty and is the last one seen
SameToken ==
    /\ demo_reply'.input.request_id \notin {NULL, ""}
    /\ "last_request_id" \in DOMAIN demo_session
    /\ demo_session["last_request_id"] = demo_reply'.input.request_id

\* C28: an upload POST whose token is not empty and equals the token of the
\* preceding upload POST of the session is redirected without saving a file,
\* running detection or modifying the stored detection; an upload POST with
\* another token is processed and its token becomes the last one seen.
C28_DuplicateGuard ==
    [][UploadStep =>
          /\ SameToken =>
                /\ demo_reply'.stages = {"repeated"}
                /\ demo_reply'.status = 302
                /\ upload_dir' = upload_dir
                /\ results_dir' = results_dir
                /\ demo_session' = demo_session
          /\ ~SameToken =>
                /\ "repeated" \notin demo_reply'.stages
                /\ demo_session'["last_request_id"] = demo_reply'.input.request_id
      ]_vars

\* an upload was redirected as repeated while the session holds the detection
\* of the upload before it
C28_Witness ==
    /\ demo_reply.op = "upload"
    /\ demo_reply.stages = {"repeated"}
    /\ HasDetection(demo_session)
    /\ demo_session["last_request_id"] = demo_reply.input.request_id

-----------------------------------------------------------------------------
(* The social storage: likes and comments kept in one JSON file that every *)
(* call reads whole and writes whole                                       *)

\* data[filename] = {'likes': [], 'comments': []} when the file name is new
WithFile(data, filename) ==
    IF filename \in DOMAIN data THEN data
    ELSE Put(data, filename, [likes |-> <<>>, comments |-> <<>>])

\* data.get(filename, {}).get('likes', [])
LikesOf(data, filename) ==
    IF filename \in DOMAIN data THEN data[filename].likes ELSE <<>>

\* get_comments
get_comments(data, filename) ==
    IF filename \in DOMAIN data THEN data[filename].comments ELSE <<>>

\* user_id, 'anonymous' when it is None
UserOf(user_id) == IF user_id = NULL THEN "anonymous" ELSE user_id

\* list.remove(x): the list without the first x
ListRemove(list, x) ==
    LET k == CHOOSE i \in 1..Len(list) :
                 list[i] = x /\ \A j \in 1..(i - 1) : list[j] # x
    IN  SubSeq(list, 1, k - 1) \o SubSeq(list, k + 1, Len(list))

\* toggle_like that only ever adds the identifier
MutToggleLikeAdds(data, filename, user_id) ==
    LET likes == Append(WithFile(data, filename)[filename].likes, UserOf(user_id))
    IN  [data  |-> Put(data, filename, [WithFile(data, filename)[filename] EXCEPT !.likes = likes]),
         liked |-> TRUE,
         count |-> Len(likes)]

\* toggle_like on the loaded data: the data to save and the result
toggle_like(data, filename, user_id) ==
    LET file_data == WithFile(data, filename)[filename]
        uid   == UserOf(user_id)
        liked == uid \notin Range(file_data.likes)
        likes == IF liked THEN Append(file_data.likes, uid)
                 ELSE ListRemove(file_data.likes, uid)
    IN  [data  |-> Put(data, filename, [file_data EXCEPT !.likes = likes]),
         liked |-> liked,
         count |-> Len(likes)]

\* add_comment that gives every comment the id 1
MutAddCommentIdOne(data, filename, comment_text, user_id, t) ==
    LET file_data == WithFile(data, filename)[filename]
        comment == [id |-> 1, user_id |-> UserOf(user_id),
                    text |-> comment_text, timestamp |-> t]
    IN  [data |-> Put(data, filename,
                      [file_data EXCEPT !.comments = Append(file_data.comments, comment)]),
         comment |-> comment]

\* add_comment on the loaded data: the data to save and the comment
add_comment(data, filename, comment_text, user_id, t) ==
    LET file_data == WithFile(data, filename)[filename]
        comment == [id |-> Len(file_data.comments) + 1, user_id |-> UserOf(user_id),
                    text |-> comment_text, timestamp |-> t]
    IN  [data |-> Put(data, filename,
                      [file_data EXCEPT !.comments = Append(file_data.comments, comment)]),
         comment |-> comment]

\* what no social storage call touches
socialRest == <<gateVars, dbVars, demoVars, callVars, workVars>>

\* symmetric difference with one pair
Flip(set, pair) == IF pair \in set THEN set \ {pair} ELSE set \cup {pair}

\* toggle_like called and run to its end with no other call in between
ToggleLike(filename, user_id) ==
    /\ LET r == toggle_like(social_data, filename, user_id)
       IN  /\ social_data' = r.data
           /\ social_reply' = [op |-> "toggle_like", filename |-> filename,
                               user_id |-> user_id, liked |-> r.liked, count |-> r.count,
                               before |-> LikesOf(social_data, filename)]
    /\ toggled' = Flip(toggled, <<filename, UserOf(user_id)>>)
    /\ UNCHANGED <<social_calls, socialRest>>

\* add_comment, first step: a thread enters the call and loads the file
AddCommentLoad(t, filename, comment_text, user_id) ==
    /\ social_calls[t] = NoCall
    /\ now + Cardinality({u \in Threads : social_calls[u] # NoCall}) < MaxTime
    /\ social_calls' = [social_calls EXCEPT
                            ![t] = [op |-> "add_comment", filename |-> filename,
                                    user_id |-> user_id, text |-> comment_text,
                                    data |-> social_data]]
    /\ UNCHANGED <<social_data, social_reply, toggled, socialRest>>

\* add_comment, second step: the thread builds the comment on the data it
\* loaded and writes the file
AddCommentSave(t) ==
    /\ social_calls[t].op = "add_comment"
    /\ LET c == social_calls[t]
           r == add_comment(c.data, c.filename, c.text, c.user_id, now)
       IN  /\ social_data' = r.data
           /\ social_reply' = [op |-> "add_comment", filename |-> c.filename,
                               user_id |-> c.user_id, liked |-> FALSE,
                               count |-> r.comment.id,
                               before |-> get_comments(social_data, c.filename)]
    /\ social_calls' = [social_calls EXCEPT ![t] = NoCall]
    /\ now' = now + 1
    /\ UNCHANGED <<toggled, blacklist, whitelist_data, whitelist_file, session, last,
                   dbVars, demoVars, callVars, workVars>>

\* image names and identifiers of the callers
SocialFiles == {"a.jpg", "b.jpg"}

SocialUsers == {"1.2.3.4", "5.6.7.8", NULL}

\* the liker lists toggles can have built: no identifier twice
RECURSIVE LikerLists(_)
LikerLists(ids) ==
    {<<>>} \cup UNION {{<<u>> \o l : l \in LikerLists(ids \ {u})} : u \in ids}

InitLikes ==
    /\ GateIdle
    /\ session = EmptyDict
    /\ now = 1
    /\ DbIdle
    /\ DemoIdle
    /\ social_data \in {EmptyDict}
          \cup {[f \in SocialFiles |-> [likes |-> IF f = "a.jpg" THEN l ELSE <<>>,
                                        comments |-> <<>>]] :
                   l \in LikerLists({UserOf(u) : u \in SocialUsers})}
    /\ social_calls = [t \in Threads |-> NoCall]
    /\ social_reply = NoSocialReply
    /\ toggled = {<<f, u>> \in SocialFiles \X {UserOf(v) : v \in SocialUsers} :
                     u \in Range(LikesOf(social_data, f))}
    /\ lib_call = NoCallYet
    /\ lib_result = NoCallYet
    /\ WorkIdle

NextLikes == \E f \in SocialFiles, u \in SocialUsers : ToggleLike(f, u)

SpecLikes == InitLikes /\ [][NextLikes]_vars

InitComments ==
    /\ GateIdle
    /\ session = EmptyDict
    /\ now = 1
    /\ DbIdle
    /\ DemoIdle
    /\ LibIdle

NextComments ==
    \/ \E t \in Threads, f \in SocialFiles, u \in {"1.2.3.4", NULL} :
          AddCommentLoad(t, f, "nice", u)
    \/ \E t \in Threads : AddCommentSave(t)

SpecComments == InitComments /\ [][NextComments]_vars

\* the step is a toggle_like call
ToggleStep == toggled' # toggled /\ social_reply'.op = "toggle_like"

\* the step is the second of two consecutive toggle_like calls for one file
\* name and identifier
SecondToggle ==
    /\ ToggleStep
    /\ social_reply.op = "toggle_like"
    /\ social_reply.filename = social_reply'.filename
    /\ UserOf(social_reply.user_id) = UserOf(social_reply'.user_id)

\* the count a toggle reports is the number of identifiers that toggled the
\* image an odd number of times
CountIsOddTogglers ==
    ToggleStep =>
        social_reply'.count
            = Cardinality({p \in toggled' : p[1] = social_reply'.filename})

\* starting from no likes two toggles answer liked, 1 and then not liked, 0
FromNoLikes ==
    SecondToggle /\ social_reply.before = <<>> =>
        /\ social_reply.liked /\ social_reply.count = 1
        /\ ~social_reply'.liked /\ social_reply'.count = 0

\* C14 as stated: two consecutive toggle_like calls for one file name and
\* identifier leave the liker list as it was before the first; from no
\* likes they answer {liked, 1} and {not liked, 0}; the reported count is
\* the number of identifiers that toggled an odd number of times.
C14_ToggleTwiceRestoresList ==
    [][/\ SecondToggle =>
             LikesOf(social_data', social_reply'.filename) = social_reply.before
       /\ FromNoLikes
       /\ CountIsOddTogglers]_vars

\* C14, amended: two consecutive toggle_like calls leave the same
\* identifiers in the liker list and the others in their order, the toggled
\* identifier being moved to the end when it was in the list; from no likes
\* they answer {liked, 1} and {not liked, 0}; the reported count is the
\* number of identifiers that toggled an odd number of times.
C14_ToggleTwiceRestoresLikers ==
    [][/\ SecondToggle =>
             LET after  == LikesOf(social_data', social_reply'.filename)
                 before == social_reply.before
                 uid    == UserOf(social_reply'.user_id)
             IN  IF uid \in Range(before)
                 THEN after = Append(ListRemove(before, uid), uid)
                 ELSE after = before
       /\ FromNoLikes
       /\ CountIsOddTogglers]_vars

\* an image that had no likes was liked and then unliked by 1.2.3.4
C14_Witness ==
    /\ social_reply.op = "toggle_like"
    /\ social_reply.filename = "b.jpg"
    /\ social_reply.user_id = "1.2.3.4"
    /\ social_reply.before = <<"1.2.3.4">>
    /\ ~social_reply.liked
    /\ social_reply.count = 0
    /\ LikesOf(social_data, "b.jpg") = <<>>

\* C15: whatever the interleaving of the read steps and the write steps of
\* concurrent add_comment calls, every image's comment list carries the ids
\* 1, 2, ..., n in list order, whatever the other images hold.
C15_CommentIdsSequential ==
    \A f \in DOMAIN social_data :
        \A k \in 1..Len(social_data[f].comments) : social_data[f].comments[k].id = k

\* a call that had loaded the file before another call's comment was
\* written has overwritten that comment: the file held a comment with id 1
\* and holds one comment with id 1 again, while the other image has one too
C15_Witness ==
    /\ social_reply.op = "add_comment"
    /\ social_reply.filename = "a.jpg"
    /\ Len(social_reply.before) = 1
    /\ social_reply.count = 1
    /\ Len(get_comments(social_data, "a.jpg")) = 1
    /\ social_calls[1].op = "add_comment"
    /\ Len(get_comments(social_calls[1].data, "a.jpg")) = 1

-----------------------------------------------------------------------------
(* The map page: the risk bucket of a saved classification.  The Korean    *)
(* words of the threat levels are written in Latin letters, syllable by    *)
(* syllable, with "." for the middle dot.                                  *)

\* "human, high risk"
HumanHigh == "inche gowiheom"

\* "aggressive, venomous"
Aggressive == "gonggyeokseong.dokseong"

\* "human, medium risk"
HumanMedium == "inche jungwiheom"

\* "toxic, dermatitis"
Dermatitis == "dokseong.pibuyeom"

\* "disease vector"
Vector == "jilbyeong maegae"

\* "danger to pets"
PetRisk == "ballyeodongmul wiheom"

\* "ordinary"
Ordinary == "ilban"

\* "nuisance"
Nuisance == "bulkwae"

\* "nuisance insect"
NuisanceInsect == "bulkwae gonchung"

\* "protected"
Protected == "boho"

\* "natural monument"
Monument == "cheonyeonginyeommul"

\* filter_level that looks for the ordinary and nuisance words first
MutFilterLevelSafeFirst(threat_level) ==
    IF ~Truthy(threat_level) THEN "unclassified"
    ELSE IF Contains(threat_level, Nuisance) \/ Contains(threat_level, Ordinary) THEN "safe"
    ELSE IF Contains(threat_level, HumanHigh) \/ Contains(threat_level, Aggressive)
    THEN "critical"
    ELSE "unclassified"

\* filter_level of map_page
filter_level(threat_level) ==
    IF ~Truthy(threat_level) THEN "unclassified"
    ELSE IF Contains(threat_level, HumanHigh) \/ Contains(threat_level, Aggressive)
    THEN "critical"
    ELSE IF \/ Contains(threat_level, HumanMedium)
            \/ Contains(threat_level, Dermatitis)
            \/ Contains(threat_level, Vector)
    THEN "danger"
    ELSE IF Contains(threat_level, PetRisk) THEN "caution"
    ELSE IF \/ Contains(threat_level, Ordinary \o "." \o Nuisance)
            \/ Contains(threat_level, NuisanceInsect)
            \/ Contains(threat_level, Ordinary \o "." \o NuisanceInsect)
            \/ Contains(threat_level, Nuisance)
            \/ Contains(threat_level, Ordinary)
    THEN "safe"
    ELSE IF Contains(threat_level, Protected) \/ Contains(threat_level, Monument)
    THEN "unknown"
    ELSE "unclassified"

\* the colour map_page gives a bucket
risk_level_color(level) ==
    IF level = "critical" THEN "#F44336"
    ELSE IF level = "danger" THEN "#FF9800"
    ELSE IF level = "caution" THEN "#FFC107"
    ELSE IF level = "safe" THEN "#4CAF50"
    ELSE IF level = "unknown" THEN "#9E9E9E"
    ELSE "#6366F1"

\* what map_page attaches to a location whose saved classification has a
\* threat_level; without one the risk comes from the saved risk_assessment
\* or from the risk assessor, which is left out here
risk_bucket(classification) ==
    IF Truthy(classification.threat_level)
    THEN [filter_level |-> filter_level(classification.threat_level),
          risk_assessment |->
              [threat_level |-> classification.threat_level,
               risk_category |-> classification.risk_category,
               risk_level_color |->
                   risk_level_color(filter_level(classification.threat_level))]]
    ELSE [filter_level |-> "unclassified", risk_assessment |-> NoneRec]

\* what no library call touches
libRest == <<gateVars, dbVars, demoVars, socialVars, workVars>>

\* everything but the library call is idle
AllIdle ==
    /\ GateIdle
    /\ session = EmptyDict
    /\ now = 1
    /\ DbIdle
    /\ DemoIdle
    /\ SocialIdle
    /\ WorkIdle

\* the words a saved threat_level is made of
ThreatWords ==
    {"", "etc", HumanHigh, Aggressive, HumanMedium, Dermatitis, Vector, PetRisk,
     Ordinary, Nuisance, Ordinary \o "." \o NuisanceInsect, Protected, Monument}

\* saved threat_level strings: up to two of the words with text around them
ThreatLevels ==
    {pre \o a \o mid \o b :
        pre \in {"", "A: "}, a \in ThreatWords, mid \in {"", " / "}, b \in ThreatWords}

InitBucket ==
    /\ AllIdle
    /\ \E t \in ThreatLevels :
          lib_call = [fn |-> "risk_bucket",
                      classification |-> [threat_level |-> t, risk_category |-> "sting"]]
    /\ lib_result = NoCallYet

\* map_page works out the bucket of the classification
RiskBucket ==
    /\ lib_call.fn = "risk_bucket"
    /\ lib_result = NoCallYet
    /\ lib_result' = [fn |-> "risk_bucket", value |-> risk_bucket(lib_call.classification)]
    /\ UNCHANGED <<lib_call, libRest>>

NextBucket == RiskBucket

SpecBucket == InitBucket /\ [][NextBucket]_vars

\* the bucket of the call has been worked out
Bucketed == lib_result # NoCallYet /\ lib_result.fn = "risk_bucket"

\* the saved threat_level of the call contains the word
Saved(word) == Contains(lib_call.classification.threat_level, word)

\* the call was given the bucket and its colour
BucketIs(level, color) ==
    /\ lib_result.value.filter_level = level
    /\ lib_result.value.risk_assessment.risk_level_color = color

\* C16 as stated: every saved threat_level containing the human-high-risk
\* words goes to bucket critical with colour #F44336 and every one
\* containing the word ordinary to bucket safe with colour #4CAF50,
\* whatever else the string contains.
C16_BucketByWord ==
    Bucketed =>
        /\ Saved(HumanHigh) => BucketIs("critical", "#F44336")
        /\ Saved(Ordinary) => BucketIs("safe", "#4CAF50")

\* C16, amended: every saved threat_level containing the human-high-risk
\* words goes to bucket critical with colour #F44336; one containing the
\* word ordinary goes to bucket safe with colour #4CAF50 when it contains
\* none of the words of the critical, danger and caution buckets, which
\* are looked for first.
C16_BucketByFirstWord ==
    Bucketed =>
        /\ Saved(HumanHigh) => BucketIs("critical", "#F44336")
        /\ (/\ Saved(Ordinary)
            /\ ~Saved(HumanHigh) /\ ~Saved(Aggressive)
            /\ ~Saved(HumanMedium) /\ ~Saved(Dermatitis) /\ ~Saved(Vector)
            /\ ~Saved(PetRisk))
              => BucketIs("safe", "#4CAF50")

\* a threat_level with the word ordinary and the word protected around
\* other text was put into the bucket safe
C16_Witness ==
    /\ Bucketed
    /\ lib_call.classification.threat_level = "A: " \o Ordinary \o " / " \o Protected
    /\ BucketIs("safe", "#4CAF50")


\* ---------------------------------------------------------------------------
\* is_malicious_pattern called on its own
\* ---------------------------------------------------------------------------

PatternPaths ==
    {"/", "/index.html", "/wp-admin", "/blog/wp-admin/setup.php",
     "/../../etc/passwd", "/static/../../etc/passwd", "/files/../notes.txt"}

PatternMethods == StandardMethods \cup malicious_methods

PatternHeaders ==
    {Headers(ua, NULL, xff, NULL) :
        ua \in {BrowserAgent, CurlAgent}, xff \in {NULL, PrivateAddr}}

InitPattern ==
    /\ AllIdle
    /\ \E m \in PatternMethods, p \in PatternPaths, h \in PatternHeaders :
          lib_call = [fn |-> "is_malicious_pattern", ip |-> ExternalAddr,
                      method |-> m, path |-> p,
                      user_agent |-> h["User-Agent"], headers |-> h]
    /\ lib_result = NoCallYet

\* the request is looked at
IsMaliciousPattern ==
    /\ lib_call.fn = "is_malicious_pattern"
    /\ lib_result = NoCallYet
    /\ lib_result' = [fn |-> "is_malicious_pattern",
                      value |-> is_malicious_pattern(lib_call.ip, lib_call.method,
                                    lib_call.path, lib_call.user_agent,
                                    lib_call.headers)]
    /\ UNCHANGED <<lib_call, libRest>>

NextPattern == IsMaliciousPattern

SpecPattern == InitPattern /\ [][NextPattern]_vars

\* the request of the call has been looked at
Looked == lib_result # NoCallYet /\ lib_result.fn = "is_malicious_pattern"

\* a reason was returned, and it is not the empty string
Flagged == lib_result.value # NULL /\ lib_result.value # ""

\* the request has a browser's user-agent and no header whose name holds
\* proxy, tunnel or forward
PlainBrowser ==
    /\ lib_call.user_agent = BrowserAgent
    /\ \A n \in DOMAIN lib_call.headers : ~HeaderNameIsProxy(n)

\* C17 as stated: a path containing /wp-admin gets a non-empty reason
\* whatever the method, a path containing ../../etc/passwd gets the
\* path-traversal reason, and path / with a browser user-agent and no
\* proxy, tunnel or forward header gets the no-match signal.
C17_PatternReasons ==
    Looked =>
        /\ Contains(lib_call.path, "/wp-admin") => Flagged
        /\ Contains(lib_call.path, "../../etc/passwd")
              => StartsWith(lib_result.value, "traversal: ")
        /\ (lib_call.path = "/" /\ PlainBrowser) => lib_result.value = NULL

\* C17, amended: a path containing /wp-admin gets a non-empty reason
\* whatever the method; a path containing ../../etc/passwd gets a non-empty
\* reason, which is the malicious-path reason, the path list being looked
\* at before the traversal patterns; path / with a browser user-agent and
\* no proxy, tunnel or forward header gets the no-match signal when the
\* method is one of the standard ones.
C17_PatternReasonsInOrder ==
    Looked =>
        /\ Contains(lib_call.path, "/wp-admin") => Flagged
        /\ Contains(lib_call.path, "../../etc/passwd")
              => Flagged /\ StartsWith(lib_result.value, "bad_path: ")
        /\ (/\ lib_call.path = "/"
            /\ PlainBrowser
            /\ lib_call.method \in StandardMethods)
              => lib_result.value = NULL

\* a GET of a path containing ../../etc/passwd was given the reason of the
\* malicious path /etc/passwd
C17_Witness ==
    /\ Looked
    /\ lib_call.path = "/static/../../etc/passwd"
    /\ lib_call.method = "GET"
    /\ PlainBrowser
    /\ lib_result.value = "bad_path: /etc/passwd"


\* ---------------------------------------------------------------------------
\* HierarchicalClassifier.classify_hierarchical called on its own
\* ---------------------------------------------------------------------------

\* the rank suffixes of the Korean names, in Latin letters: mok (order),
\* gwa (family), sok (genus)
OrderSuffix  == "mok"
FamilySuffix == "gwa"
GenusSuffix  == "sok"

\* str.replace(w, ''): s without the occurrences of w, from the left
RECURSIVE Without(_, _)
Without(s, w) ==
    IF Len(s) < Len(w) \/ w = "" THEN s
    ELSE IF SubSeq(s, 1, Len(w)) = w
    THEN Without(SubSeq(s, Len(w) + 1, Len(s)), w)
    ELSE SubSeq(s, 1, 1) \o Without(SubSeq(s, 2, Len(s)), w)

\* _find_classifier: the stem of the model file of the level whose name
\* holds best_<key>_<level>_classifier and whose class file exists, or NULL.
\* No classifier stays loaded between calls, each being unloaded after use.
_find_classifier(models, key, level) ==
    LET pattern == "best_" \o key \o "_" \o level \o "_classifier"
        found == {f \in models : /\ f.level = level
                                 /\ Contains(f.stem, pattern)
                                 /\ f.classes}
    IN  IF found = {} THEN NULL ELSE (CHOOSE f \in found : TRUE).stem

\* _classify_single: what the classifier says of the image, NoneRec when it
\* could not be loaded or failed
_classify_single(image, classifier_key) == image[classifier_key]

\* classify_hierarchical giving a species whatever the upper ranks gave
MutHierSpeciesAlone(models, image, order_name) ==
    [result |-> [order |-> order_name, family |-> NULL, genus |-> NULL,
                 species |-> "jangsumalbeol",
                 confidence_scores |-> [l \in {"species"} |-> 50]],
     ran |-> <<"species">>]

\* classify_hierarchical: the result dictionary, and the levels whose
\* classifier was run, in order
classify_hierarchical(models, image, order_name) ==
    LET order_key         == Lower(Without(order_name, OrderSuffix))
        family_classifier == _find_classifier(models, order_key, "family")
        family_result     == IF family_classifier = NULL THEN NoneRec
                             ELSE _classify_single(image, family_classifier)
        family            == IF Falsy(family_result) THEN NULL
                             ELSE family_result.items[1].name
        family_key        == Lower(Without(family, FamilySuffix))
        genus_classifier  == IF family = NULL THEN NULL
                             ELSE _find_classifier(models, family_key, "genus")
        genus_result      == IF genus_classifier = NULL THEN NoneRec
                             ELSE _classify_single(image, genus_classifier)
        genus             == IF Falsy(genus_result) THEN NULL
                             ELSE genus_result.items[1].name
        genus_key         == Strip(Without(Lower(genus), GenusSuffix))
        species_classifier == IF genus = NULL THEN NULL
                              ELSE _find_classifier(models, genus_key, "species")
        species_result    == IF species_classifier = NULL THEN NoneRec
                             ELSE _classify_single(image, species_classifier)
        species           == IF Falsy(species_result) THEN NULL
                             ELSE species_result.items[1].name
        scored == (IF family = NULL THEN {} ELSE {"family"})
                    \cup (IF genus = NULL THEN {} ELSE {"genus"})
                    \cup (IF species = NULL THEN {} ELSE {"species"})
        top(l) == CASE l = "family" -> family_result.items[1].confidence
                    [] l = "genus" -> genus_result.items[1].confidence
                    [] l = "species" -> species_result.items[1].confidence
        base == [order |-> order_name, family |-> family, genus |-> genus,
                 species |-> species,
                 confidence_scores |-> [l \in scored |-> top(l)]]
    IN  [result |-> IF species = NULL THEN base
                    ELSE base @@ [species_candidates |-> species_result.items],
         ran |-> (IF family_classifier = NULL THEN <<>> ELSE <<"family">>)
                   \o (IF genus_classifier = NULL THEN <<>> ELSE <<"genus">>)
                   \o (IF species_classifier = NULL THEN <<>> ELSE <<"species">>)]

FamilyStem  == "best_beol_family_classifier"
GenusStem   == "best_malbeol_genus_classifier"
SpeciesStem == "best_malbeol_species_classifier"

Stems == {FamilyStem, GenusStem, SpeciesStem}

LevelOf(stem) ==
    CASE stem = FamilyStem -> "family"
      [] stem = GenusStem -> "genus"
      [] stem = SpeciesStem -> "species"

\* a model file of the models directory, with or without its class file
ModelFiles == {[level |-> LevelOf(st), stem |-> st, classes |-> c] :
                  st \in Stems, c \in BOOLEAN}

\* what a classifier can say: nothing (load or inference failure), an empty
\* list, names that lead to the next classifier, names that lead nowhere
Predictions(stem) ==
    LET names == CASE stem = FamilyStem -> <<"Malbeolgwa", "kkulbeolgwa">>
                   [] stem = GenusStem -> <<"malbeolsok ", "ssangsalbeolsok">>
                   [] stem = SpeciesStem -> <<"jangsumalbeol", "malbeol">>
    IN  {NoneRec, ListOf(<<>>),
         ListOf(<<[name |-> names[1], confidence |-> 90],
                  [name |-> names[2], confidence |-> 10]>>),
         ListOf(<<[name |-> names[2], confidence |-> 60]>>)}

OrderNames == {"Beolmok", "nabimok", "Unknown"}

InitHier ==
    /\ AllIdle
    /\ \E models \in {ms \in SUBSET ModelFiles :
                        \A f, g \in ms : f.stem = g.stem => f = g},
          pf \in Predictions(FamilyStem), pg \in Predictions(GenusStem),
          ps \in Predictions(SpeciesStem), order_name \in OrderNames :
          lib_call = [fn |-> "classify_hierarchical", models |-> models,
                      image |-> [st \in Stems |->
                                   CASE st = FamilyStem -> pf
                                     [] st = GenusStem -> pg
                                     [] st = SpeciesStem -> ps],
                      order_name |-> order_name]
    /\ lib_result = NoCallYet

\* the crop is classified down the ranks
ClassifyHierarchical ==
    /\ lib_call.fn = "classify_hierarchical"
    /\ lib_result = NoCallYet
    /\ lib_result' = [fn |-> "classify_hierarchical",
                      value |-> classify_hierarchical(lib_call.models, lib_call.image,
                                                      lib_call.order_name)]
    /\ UNCHANGED <<lib_call, libRest>>

NextHier == ClassifyHierarchical

SpecHier == InitHier /\ [][NextHier]_vars

\* the call has returned
Classified == lib_result # NoCallYet /\ lib_result.fn = "classify_hierarchical"

\* the rank of the returned result is set
RankSet(rank) == lib_result.value.result[rank] # NULL

\* the classifier of the level was run
Ran(level) == \E i \in 1..Len(lib_result.value.ran) : lib_result.value.ran[i] = level

\* the classifier of the level for the key cannot be located, or says nothing
\* of the image
NoPrediction(key, level) ==
    LET c == _find_classifier(lib_call.models, key, level)
    IN  c = NULL \/ Falsy(lib_call.image[c])

\* C18: in the result of classify_hierarchical the species is set only if
\* the genus is, and the genus only if the family is; the genus and species
\* classifiers run only when the rank above was resolved; when the
\* classifier of a rank cannot be located or gives no prediction, that rank
\* and every lower one stay unset; the order is the caller's.
C18_RanksNested ==
    Classified =>
        LET r == lib_result.value.result
        IN  /\ RankSet("species") => RankSet("genus")
            /\ RankSet("genus") => RankSet("family")
            /\ Ran("genus") => RankSet("family")
            /\ Ran("species") => RankSet("genus")
            /\ NoPrediction(Lower(Without(lib_call.order_name, OrderSuffix)), "family")
                 => ~RankSet("family") /\ ~RankSet("genus") /\ ~RankSet("species")
            /\ (/\ RankSet("family")
                /\ NoPrediction(Lower(Without(r.family, FamilySuffix)), "genus"))
                 => ~RankSet("genus") /\ ~RankSet("species")
            /\ (/\ RankSet("genus")
                /\ NoPrediction(Strip(Without(Lower(r.genus), GenusSuffix)), "species"))
                 => ~RankSet("species")
            /\ r.order = lib_call.order_name

\* a family was resolved, the genus classifier ran and gave nothing, and the
\* genus and the species stayed unset
C18_Witness ==
    /\ Classified
    /\ lib_call.order_name = "Beolmok"
    /\ RankSet("family")
    /\ Ran("genus")
    /\ ~Ran("species")
    /\ ~RankSet("genus")
    /\ ~RankSet("species")


\* ---------------------------------------------------------------------------
\* RiskAssessor.assess_risk called on its own
\* ---------------------------------------------------------------------------

\* RISK_LEVELS: the colour of each level
RISK_LEVELS ==
    [safe |-> [color |-> "#4CAF50"], caution |-> [color |-> "#FFC107"],
     danger |-> [color |-> "#FF9800"], critical |-> [color |-> "#F44336"]]

\* an entry of the knowledge base; the scores are in tenths, protection is
\* "" for an entry without protection_status
Species(korean_name, scientific_name, tox, agg, bite, allergy, sev, overall, level, protection) ==
    [korean_name |-> korean_name, scientific_name |-> scientific_name,
     risk_factors |-> [toxicity |-> tox, aggression |-> agg, bite_sting |-> bite,
                       allergy |-> allergy, severity |-> sev],
     overall_risk |-> overall, risk_level |-> level, protection_status |-> protection]

\* _get_default_database, in the order of the dictionary; the Korean names are
\* written in Latin letters
risk_database ==
    << Species("jangsupungdengi", "Allomyrina dichotoma", 0, 0, 0, 0, 0, 0, "safe", ""),
       Species("wangsaseumbeolle", "Dorcus hopei", 0, 10, 10, 0, 5, 5, "safe", ""),
       Species("jangsuhaneulso", "Callipogon relictus", 0, 5, 5, 0, 0, 2, "safe",
               "natural monument 218"),
       Species("wangsamagwi", "Tenodera angustipennis", 0, 10, 10, 0, 5, 5, "safe", ""),
       Species("jangsumalbeol", "Vespa mandarinia", 50, 50, 50, 50, 50, 50, "critical", ""),
       Species("deunggeomeunmalbeol", "Vespa velutina nigrithorax",
               45, 50, 45, 45, 45, 46, "critical", ""),
       Species("hwasangbeolle", "Paederus fuscipes", 40, 0, 0, 30, 35, 35, "danger", ""),
       Species("dongnabang", "Euproctis spp.", 30, 0, 0, 35, 30, 30, "caution", ""),
       Species("sswaeginabang", "Limacodidae spp.", 40, 0, 40, 35, 40, 40, "danger", "") >>

\* _generate_warnings giving no warning at all
MutGenerateNoWarnings(data) == <<>>

\* _generate_warnings: the warning strings, in English
_generate_warnings(data) ==
    LET risk_factors == data.risk_factors
        risk_level   == data.risk_level
        when(c, w)   == IF c THEN <<w>> ELSE <<>>
    IN  IF risk_level = "critical"
        THEN <<"very dangerous: can threaten life">>
               \o when(risk_factors.toxicity >= 40, "strong toxicity")
               \o when(risk_factors.aggression >= 40, "high aggression")
               \o when(risk_factors.allergy >= 40, "anaphylaxis risk")
        ELSE IF risk_level = "danger"
        THEN <<"dangerous: can cause serious symptoms">>
               \o when(risk_factors.toxicity >= 30, "toxic substance")
               \o when(risk_factors.allergy >= 30, "allergic reaction possible")
        ELSE IF risk_level = "caution"
        THEN <<"caution: contact can cause discomfort", "avoid bare-hand contact">>
        ELSE <<"safe: harmless in general">>
               \o when(data.protection_status # "", "protected species: no capture")

\* _generate_response_guide: the sections of the guide
_generate_response_guide(data) ==
    CASE data.risk_level = "critical" -> {"prevention", "first_aid", "emergency", "reporting"}
      [] data.risk_level = "danger" -> {"prevention", "first_aid", "emergency"}
      [] data.risk_level = "caution" -> {"prevention", "first_aid"}
      [] OTHER -> {"observation", "handling"}
                    \cup (IF data.protection_status # "" THEN {"legal"} ELSE {})

_format_risk_result(species_name, data) ==
    [species_name |-> species_name, scientific_name |-> data.scientific_name,
     risk_factors |-> data.risk_factors, overall_risk |-> data.overall_risk,
     risk_level |-> data.risk_level,
     risk_level_color |-> RISK_LEVELS[data.risk_level].color,
     warnings |-> _generate_warnings(data),
     response_guide |-> _generate_response_guide(data)]

\* the first entry of the knowledge base passing the test, 0 for none
FirstEntry(matches) ==
    IF matches = {} THEN 0 ELSE CHOOSE k \in matches : \A j \in matches : k <= j

\* assess_risk: by Korean name, then by scientific name, then by one name
\* holding the other; NoneRec for None
assess_risk(species_name) ==
    LET entries == 1..Len(risk_database)
        korean  == FirstEntry({k \in entries : risk_database[k].korean_name = species_name})
        exact   == FirstEntry({k \in entries :
                                  risk_database[k].scientific_name = species_name})
        partial == FirstEntry({k \in entries :
                                  \/ Contains(risk_database[k].scientific_name, species_name)
                                  \/ Contains(species_name, risk_database[k].scientific_name)})
        k == IF korean # 0 THEN korean ELSE IF exact # 0 THEN exact ELSE partial
    IN  IF k = 0 THEN NoneRec
        ELSE _format_risk_result(risk_database[k].korean_name, risk_database[k])

\* the words of a scientific name
FirstWord(s) == Split(s, " ")[1]
LastWord(s)  == Split(s, " ")[Len(Split(s, " "))]

\* names a caller asks about: the names of the entries and parts of them,
\* and names of no entry
RiskQueries ==
    UNION {{e.korean_name, e.korean_name \o " ", e.scientific_name,
            e.scientific_name \o " (Smith)", Lower(e.scientific_name),
            FirstWord(e.scientific_name), LastWord(e.scientific_name)} :
              e \in {risk_database[k] : k \in 1..Len(risk_database)}}
      \cup {"Apis mellifera", "kkulbeol", "Unknown"}

InitRisk ==
    /\ AllIdle
    /\ \E species_name \in RiskQueries :
          lib_call = [fn |-> "assess_risk", species_name |-> species_name]
    /\ lib_result = NoCallYet

\* the species is assessed
AssessRisk ==
    /\ lib_call.fn = "assess_risk"
    /\ lib_result = NoCallYet
    /\ lib_result' = [fn |-> "assess_risk", value |-> assess_risk(lib_call.species_name)]
    /\ UNCHANGED <<lib_call, libRest>>

NextRisk == AssessRisk

SpecRisk == InitRisk /\ [][NextRisk]_vars

\* the call has returned the assessment of an entry of the knowledge base
Assessed ==
    /\ lib_result # NoCallYet
    /\ lib_result.fn = "assess_risk"
    /\ lib_result.value # NoneRec

\* the call named one of the entries, by its Korean or its scientific name
NamedEntry ==
    \E k \in 1..Len(risk_database) :
        lib_call.species_name \in {risk_database[k].korean_name,
                                   risk_database[k].scientific_name}

\* C19 as stated: for every species of the built-in knowledge base the
\* result of assess_risk carries at least 1 and at most 3 warning strings.
C19_OneToThreeWarnings ==
    (Assessed /\ NamedEntry) => Len(lib_result.value.warnings) \in 1..3

\* C19, amended: for every species of the built-in knowledge base the
\* result of assess_risk carries at least 1 and at most 4 warning strings,
\* and at most 3 for a species whose level is not critical.
C19_OneToFourWarnings ==
    (Assessed /\ NamedEntry) =>
        /\ Len(lib_result.value.warnings) \in 1..4
        /\ lib_result.value.risk_level # "critical"
             => Len(lib_result.value.warnings) <= 3

\* the assessment of the species named jangsumalbeol carries four warnings
C19_Witness ==
    /\ Assessed
    /\ lib_call.species_name = "jangsumalbeol"
    /\ lib_result.value.risk_level = "critical"
    /\ Len(lib_result.value.warnings) = 4


\* ---------------------------------------------------------------------------
\* save_training_data served by two threads, one backend call per step
\* ---------------------------------------------------------------------------

saveRest == <<blacklist, whitelist_data, whitelist_file, session, last,
              insect_species, uploads, demoVars, socialVars, callVars,
              taxonomy_cache, cache_timestamp, cache_params>>

\* the save requests in flight
SavesInFlight == {t \in Threads : save_calls[t] # NoSave}

\* the request ends with the response
SaveEnds(t, form, status, success, data) ==
    /\ save_calls' = [save_calls EXCEPT ![t] = NoSave]
    /\ reply' = Reply("save_training_data", form, status, success, data)
    /\ now' = now + 1

\* the request arrives with a pending_file_id and the status of the pending
\* file is read
SaveCheckStatus(t, form) ==
    /\ save_calls[t] = NoSave
    /\ Truthy(form.pending_file_id)
    /\ now + Cardinality(SavesInFlight) < MaxTime
    /\ LET deny == login_required(BackendRequest("POST", "/api/save_training_data"),
                                  session)
       IN  IF deny # NoResponse
           THEN SaveEnds(t, form, deny.status, FALSE, <<>>)
           ELSE IF ~IsInt(form.pending_file_id)
           THEN SaveEnds(t, form, 500, FALSE, <<>>)
           ELSE LET pid    == int(form.pending_file_id)
                    status == Where(pending_review_files, LAMBDA f : f.id = pid)
                IN  IF Len(status) > 0 /\ status[1].status = "completed"
                    THEN SaveEnds(t, form, 200, FALSE, <<>>)
                    ELSE /\ save_calls' = [save_calls EXCEPT
                                              ![t] = [pc |-> "lookup", form |-> form]]
                         /\ UNCHANGED <<reply, now>>
    /\ UNCHANGED <<labeled_images, pending_review_files, saveRest>>

\* the rows of the pending file are looked up and the new row is built
SaveLookup(t) ==
    /\ save_calls[t].pc = "lookup"
    /\ LET form     == save_calls[t].form
           pid      == int(form.pending_file_id)
           existing == Where(labeled_images, LAMBDA r : r.pending_file_id = pid)
           bbox     == form.bbox_annotations
       IN  IF Truthy(bbox) /\ ~json_loads(bbox).ok
           THEN SaveEnds(t, form, 500, FALSE, <<>>)
           ELSE /\ save_calls' = [save_calls EXCEPT
                                     ![t] = [pc |-> "write", form |-> form,
                                             existing |-> [k \in 1..Len(existing) |->
                                                              existing[k].id]]]
                /\ UNCHANGED <<reply, now>>
    /\ UNCHANGED <<labeled_images, pending_review_files, saveRest>>

\* the row found is updated, or a new row is inserted
SaveWrite(t) ==
    /\ save_calls[t].pc = "write"
    /\ LET c        == save_calls[t]
           form     == c.form
           pid      == int(form.pending_file_id)
           user     == get_current_user(session)
           bbox     == form.bbox_annotations
           bbox_data == IF Truthy(bbox) THEN json_loads(bbox).value ELSE NULL
           filename == IF form.filename = NULL THEN "unknown.jpg" ELSE form.filename
           write(r) == [r EXCEPT !.pending_file_id = pid,
                                 !.filename = filename,
                                 !.order_name = OrNone(form.order_name),
                                 !.bbox_data = bbox_data,
                                 !.reviewer_name = user.name]
           fresh    == [id |-> NextId(labeled_images), pending_file_id |-> pid,
                        filename |-> filename,
                        order_name |-> OrNone(form.order_name),
                        bbox_data |-> bbox_data, reviewer_name |-> user.name,
                        created_at |-> now]
           updated  == Where(labeled_images, LAMBDA r : r.id = c.existing[1])
       IN  IF Len(c.existing) > 0
           THEN /\ labeled_images' = UpdateWhere(labeled_images,
                                                 LAMBDA r : r.id = c.existing[1], write)
                /\ save_calls' = [save_calls EXCEPT
                                     ![t] = [pc |-> "complete", form |-> form,
                                             data |-> [k \in 1..Len(updated) |->
                                                          write(updated[k])]]]
           ELSE /\ labeled_images' = Append(labeled_images, fresh)
                /\ save_calls' = [save_calls EXCEPT
                                     ![t] = [pc |-> "complete", form |-> form,
                                             data |-> <<fresh>>]]
    /\ UNCHANGED <<pending_review_files, reply, now, saveRest>>

\* the pending file is marked completed and the request is answered
SaveMarkCompleted(t) ==
    /\ save_calls[t].pc = "complete"
    /\ pending_review_files' =
          CompletePendingFile(pending_review_files,
                              int(save_calls[t].form.pending_file_id))
    /\ SaveEnds(t, save_calls[t].form, 200, TRUE, save_calls[t].data)
    /\ UNCHANGED <<labeled_images, saveRest>>

InitRace ==
    /\ GateIdle
    /\ session \in Sessions
    /\ now = 1
    /\ labeled_images \in {li \in SaveLabeledTables : AtMostOnePerPendingFile(li)}
    /\ pending_review_files \in SavePendingTables
    /\ insect_species = <<>>
    /\ uploads = {}
    /\ reply = NoReply
    /\ DemoIdle
    /\ LibIdle

NextRace ==
    \E t \in Threads :
        \/ \E form \in SaveForms : SaveCheckStatus(t, form)
        \/ SaveLookup(t)
        \/ SaveWrite(t)
        \/ SaveMarkCompleted(t)

SpecRace == InitRace /\ [][NextRace]_vars

\* C23: under every interleaving of save_training_data requests carrying the
\* same pending_file_id, labeled_images holds at most one row for that
\* pending_file_id.
C23_OneRowPerPendingFile == AtMostOnePerPendingFile(labeled_images)


\* ---------------------------------------------------------------------------
\* The transitions of a pending review file
\* ---------------------------------------------------------------------------

\* the update of the columns of the rows with the id; reviewed_at is not kept
\* in the model
UpdateStatus(prf, file_id, status) ==
    [k \in 1..Len(prf) |->
        IF prf[k].id = file_id THEN [prf[k] EXCEPT !.status = status] ELSE prf[k]]

UpdateStatusReviewer(prf, file_id, status, reviewer) ==
    [k \in 1..Len(prf) |->
        IF prf[k].id = file_id
        THEN [prf[k] EXCEPT !.status = status, !.assigned_reviewer = reviewer]
        ELSE prf[k]]

complete_pending_file_review(prf, file_id) == UpdateStatus(prf, file_id, "completed")

skip_pending_file(prf, file_id) == UpdateStatusReviewer(prf, file_id, "pending", NULL)

\* the reason is read from the request and is no part of the update
exclude_pending_file(prf, file_id, reason, current_user) ==
    UpdateStatusReviewer(prf, file_id, "excluded", current_user.name)

mark_file_for_review(prf, file_id, current_user) ==
    UpdateStatusReviewer(prf, file_id, "reviewing", current_user.name)

pendingRest == <<blacklist, whitelist_data, whitelist_file, session, now, last,
                 labeled_images, insect_species, uploads, demoVars, libVars>>

\* a POST to /api/pending-files/<file_id>/<what>, with a JSON body or none
Transition(what, file_id, json, table) ==
    LET deny == login_required(BackendRequest("POST", "/api/pending-files"), session)
        in   == [file_id |-> file_id, json |-> json]
    IN  IF deny # NoResponse
        THEN /\ reply' = Reply(what, in, deny.status, FALSE, <<>>)
             /\ UNCHANGED pending_review_files
        ELSE IF what = "exclude_pending_file" /\ json = NoneRec
        THEN /\ reply' = Reply(what, in, 500, FALSE, <<>>)
             /\ UNCHANGED pending_review_files
        ELSE /\ reply' = Reply(what, in, 200, TRUE, <<>>)
             /\ pending_review_files' = table

CompleteReview(file_id) ==
    /\ Transition("complete_pending_file_review", file_id, NoneRec,
                  complete_pending_file_review(pending_review_files, file_id))
    /\ UNCHANGED pendingRest

SkipPendingFile(file_id) ==
    /\ Transition("skip_pending_file", file_id, NoneRec,
                  skip_pending_file(pending_review_files, file_id))
    /\ UNCHANGED pendingRest

\* the body is a JSON object with or without a reason, or no JSON at all
ExcludePendingFile(file_id, json) ==
    /\ Transition("exclude_pending_file", file_id, json,
                  exclude_pending_file(pending_review_files, file_id,
                                       IF "reason" \in DOMAIN json THEN json.reason
                                       ELSE "not a labeling target",
                                       get_current_user(session)))
    /\ UNCHANGED pendingRest

MarkFileForReview(file_id) ==
    /\ Transition("mark_file_for_review", file_id, NoneRec,
                  mark_file_for_review(pending_review_files, file_id,
                                       get_current_user(session)))
    /\ UNCHANGED pendingRest

\* ids in the URL: the two pending files and one that does not exist
FileIds == {1, 2, 3}

ExcludeBodies == {NoneRec, [reason |-> "blurred"], [note |-> "x"]}

\* two pending files in any status, assigned or not
TransitionTables ==
    {<<[PendingRow(1, "a.jpg", s1, NULL) EXCEPT !.assigned_reviewer = r1],
       [PendingRow(2, "b.jpg", s2, OrderA) EXCEPT !.assigned_reviewer = r2]>> :
        s1 \in Statuses, s2 \in Statuses, r1 \in {NULL, "Kim"}, r2 \in {NULL}}

InitPending ==
    /\ GateIdle
    /\ session \in Sessions
    /\ now = 1
    /\ labeled_images = <<>>
    /\ pending_review_files \in TransitionTables
    /\ insect_species = <<>>
    /\ uploads = {}
    /\ reply = NoReply
    /\ DemoIdle
    /\ LibIdle

NextPending ==
    \E file_id \in FileIds :
        \/ CompleteReview(file_id)
        \/ SkipPendingFile(file_id)
        \/ \E json \in ExcludeBodies : ExcludePendingFile(file_id, json)
        \/ MarkFileForReview(file_id)

SpecPending == InitPending /\ [][NextPending]_vars

\* C25: once the status of a pending review file is completed or excluded,
\* no transition request moves it to pending or reviewing.
C25_FinalStatusesStay ==
    [][\A k \in 1..Len(pending_review_files) :
          pending_review_files[k].status \in {"completed", "excluded"}
            => pending_review_files'[k].status \notin {"pending", "reviewing"}
      ]_vars

\* the rows the answered request addressed, as they are after it
Addressed == SelectSeq(pending_review_files',
                       LAMBDA f : f.id = reply'.input.file_id)

\* the reason the exclude request supplied
SuppliedReason == IF "reason" \in DOMAIN reply'.input.json
                  THEN reply'.input.json.reason ELSE "not a labeling target"

\* C29: on the addressed record, exclude sets status excluded and stores the
\* supplied reason and the acting reviewer; skip sets status pending and
\* clears the assigned reviewer; mark-for-review sets status reviewing with
\* the acting reviewer assigned; mark-as-completed sets status completed.
C29_TransitionEffects ==
    [][reply'.success =>
          \A k \in 1..Len(Addressed) :
              LET f    == Addressed[k]
                  user == get_current_user(session)
              IN  /\ reply'.op = "exclude_pending_file" =>
                        /\ f.status = "excluded"
                        /\ f.assigned_reviewer = user.name
                        /\ \E c \in DOMAIN f \ {"id"} : f[c] = SuppliedReason
                  /\ reply'.op = "skip_pending_file" =>
                        f.status = "pending" /\ f.assigned_reviewer = NULL
                  /\ reply'.op = "mark_file_for_review" =>
                        f.status = "reviewing" /\ f.assigned_reviewer = user.name
                  /\ reply'.op = "complete_pending_file_review" =>
                        f.status = "completed"
      ]_vars


\* ---------------------------------------------------------------------------
\* /api/search and its cache
\* ---------------------------------------------------------------------------

CACHE_DURATION == 300

column_map == [order |-> "order_name", family |-> "family_name",
               genus |-> "genus_name", species |-> "species_name"]

\* cache_timestamp.get(cache_key, 0)
Get0(d, key) == IF key \in DOMAIN d THEN d[key] ELSE 0

\* f"{level}_{order}_{family}_{genus}"; a missing level is formatted as None
cache_key(level, order, family, genus) ==
    (IF level = NULL THEN "None" ELSE level)
        \o "_" \o order \o "_" \o family \o "_" \o genus

\* the code points of the characters of the names, in their order
Alphabet == UpperCase \o <<"_">> \o LowerCase

CharRank(c) ==
    IF \E k \in 1..Len(Alphabet) : Alphabet[k] = c
    THEN CHOOSE k \in 1..Len(Alphabet) : Alphabet[k] = c
    ELSE 0

\* a < b for two strings
RECURSIVE StrLess(_, _)
StrLess(a, b) ==
    IF Len(b) = 0 THEN FALSE
    ELSE IF Len(a) = 0 THEN TRUE
    ELSE IF Char(a, 1) = Char(b, 1)
    THEN StrLess(SubSeq(a, 2, Len(a)), SubSeq(b, 2, Len(b)))
    ELSE CharRank(Char(a, 1)) < CharRank(Char(b, 1))

\* sorted(items)
RECURSIVE sorted(_)
sorted(items) ==
    IF items = <<>> THEN <<>>
    ELSE LET least == CHOOSE k \in 1..Len(items) :
                          \A j \in 1..Len(items) : ~StrLess(items[j], items[k])
         IN  <<items[least]>>
                 \o sorted(SubSeq(items, 1, least - 1)
                              \o SubSeq(items, least + 1, Len(items)))

\* the values of the column in the rows, each once, without the empty ones
RECURSIVE DistinctValues(_, _)
DistinctValues(rows, column) ==
    IF rows = <<>> THEN <<>>
    ELSE LET before == DistinctValues(SubSeq(rows, 1, Len(rows) - 1), column)
             value  == rows[Len(rows)][column]
         IN  IF Truthy(value) /\ value \notin Range(before)
             THEN Append(before, value) ELSE before

\* the .eq() on the rank above the level, when that rank is given
ParentFilter(rows, level, order, family, genus) ==
    SelectSeq(rows, LAMBDA r :
        IF level = "family" /\ order # "" THEN r.order_name = order
        ELSE IF level = "genus" /\ family # "" THEN r.family_name = family
        ELSE IF level = "species" /\ genus # "" THEN r.genus_name = genus
        ELSE TRUE)

\* search_taxonomy: args are the query parameters (level NULL when missing),
\* backend is the table at the time of the query or a failing query; source
\* says where the items came from
search_taxonomy(args, cache, stamps, backend, current_time) ==
    LET level  == args.level
        query  == Lower(Strip(args.q))
        order  == Strip(args.order)
        family == Strip(args.family)
        genus  == Strip(args.genus)
        key    == cache_key(level, order, family, genus)
        out(c, st, status, items, source) ==
            [taxonomy_cache |-> c, cache_timestamp |-> st, status |-> status,
             items |-> Take(sorted(items), 10), source |-> source]
        column == column_map[level]
        parent(rows) == ParentFilter(rows, level, order, family, genus)
        matching == SelectSeq(backend.rows,
                              LAMBDA r : Contains(Lower(r[column]), query))
        found  == DistinctValues(Take(parent(matching), 50), column)
        listed == DistinctValues(Take(parent(backend.rows), 1000), column)
    IN  IF level \notin DOMAIN column_map THEN out(cache, stamps, 200, <<>>, "none")
        ELSE IF query # ""
        THEN IF backend.raised THEN out(cache, stamps, 500, <<>>, "backend")
             ELSE out(cache, stamps, 200, found, "backend")
        ELSE IF key \in DOMAIN cache
                /\ current_time - Get0(stamps, key) < CACHE_DURATION
        THEN out(cache, stamps, 200, cache[key], "cache")
        ELSE IF backend.raised THEN out(cache, stamps, 500, <<>>, "backend")
        ELSE out(Put(cache, key, listed), Put(stamps, key, current_time),
                 200, listed, "backend")

\* the (level, order, family, genus) of a request
Params(args) == <<args.level, Strip(args.order), Strip(args.family), Strip(args.genus)>>

KeyOf(args) ==
    cache_key(args.level, Strip(args.order), Strip(args.family), Strip(args.genus))

searchRest == <<blacklist, whitelist_data, whitelist_file, session, last,
                labeled_images, pending_review_files, insect_species, uploads,
                demoVars, socialVars, callVars, save_calls>>

\* GET /api/search
SearchTaxonomy(args, backend) ==
    /\ LET deny == login_required(BackendRequest("GET", "/api/search"), session)
           r    == search_taxonomy(args, taxonomy_cache, cache_timestamp, backend, now)
       IN  IF deny # NoResponse
           THEN /\ reply' = Reply("search_taxonomy", args, deny.status, FALSE,
                                  [items |-> <<>>, source |-> "none"])
                /\ UNCHANGED <<taxonomy_cache, cache_timestamp, cache_params>>
           ELSE /\ reply' = Reply("search_taxonomy", args, r.status, r.status = 200,
                                  [items |-> r.items, source |-> r.source])
                /\ taxonomy_cache' = r.taxonomy_cache
                /\ cache_timestamp' = r.cache_timestamp
                /\ cache_params' = IF r.cache_timestamp # cache_timestamp
                                   THEN Put(cache_params, KeyOf(args), Params(args))
                                   ELSE cache_params
    /\ UNCHANGED <<now, searchRest>>

\* the values of time.time() at which requests arrive
Clocks == {1000, 1299, 1300}

\* time passes between two requests
TimePasses ==
    /\ \E later \in Clocks : later > now /\ now' = later
    /\ UNCHANGED <<reply, workVars, searchRest>>

TaxonRow(order_name, family_name, genus_name, species_name) ==
    [order_name |-> order_name, family_name |-> family_name,
     genus_name |-> genus_name, species_name |-> species_name]

\* what the query reads: it fails, or it reads the table as it is then
Backends ==
    {[raised |-> TRUE, rows |-> <<>>],
     [raised |-> FALSE,
      rows |-> <<TaxonRow("Coleoptera", "Carabidae", "Carabus", "Carabus_smaragdinus"),
                 TaxonRow("Coleoptera", "Cerambycidae", "", ""),
                 TaxonRow("Coleoptera", "Carabidae", "Calosoma", ""),
                 TaxonRow("Diptera", "Culicidae", "Aedes", "Aedes_albopictus")>>]}

SearchArgs ==
    {[level |-> "family", q |-> q, order |-> "", family |-> "", genus |-> ""] :
        q \in {"", " ", "Car"}}
      \cup {[level |-> "family", q |-> "", order |-> t[1], family |-> t[2],
             genus |-> ""] : t \in {<<"Coleoptera_", "">>, <<"Coleoptera", "_">>}}
      \cup {[level |-> "genus", q |-> q, order |-> "", family |-> " Carabidae",
             genus |-> ""] : q \in {"", "car"}}
      \cup {[level |-> l, q |-> "", order |-> "", family |-> "", genus |-> ""] :
               l \in {NULL, "phylum"}}

InitSearch ==
    /\ GateIdle
    /\ session \in Sessions
    /\ now = 1000
    /\ DbIdle
    /\ DemoIdle
    /\ LibIdle

NextSearch ==
    \/ \E args \in SearchArgs, backend \in Backends : SearchTaxonomy(args, backend)
    \/ TimePasses

SpecSearch == InitSearch /\ [][NextSearch]_vars

\* a request to /api/search was answered from the cache or from the backend
SearchStep ==
    /\ reply'.op = "search_taxonomy" /\ now' = now
    /\ reply'.status = 200 /\ reply'.data.source # "none"

\* the cache holds an entry stored for the parameters of the request less
\* than 300 seconds earlier
FreshEntry(args) ==
    /\ KeyOf(args) \in DOMAIN taxonomy_cache
    /\ cache_params[KeyOf(args)] = Params(args)
    /\ now - cache_timestamp[KeyOf(args)] < 300

\* C30: a request to /api/search without a free-text query is served from
\* the cache only if an entry for the same (level, order, family, genus) was
\* stored less than 300 seconds earlier; otherwise the backend is queried
\* and the entry and its timestamp are overwritten. A request with a
\* free-text query neither reads nor writes the cache.
C30_CacheUse ==
    [][SearchStep =>
          LET args == reply'.input
              key  == KeyOf(args)
          IN  /\ Lower(Strip(args.q)) # "" =>
                    /\ reply'.data.source = "backend"
                    /\ UNCHANGED <<taxonomy_cache, cache_timestamp>>
              /\ Lower(Strip(args.q)) = "" =>
                    /\ reply'.data.source = "cache" <=> FreshEntry(args)
                    /\ reply'.data.source = "cache" =>
                          UNCHANGED <<taxonomy_cache, cache_timestamp>>
                    /\ reply'.data.source = "backend" =>
                          /\ key \in DOMAIN taxonomy_cache'
                          /\ cache_timestamp'[key] = now
      ]_vars

=============================================================================
